---- MODULE Spec2Model ----
\* solr_manager: one run of the command-line tool, from the parsed arguments
\* to the process exit status.  cli.main loads the profile, resolves the
\* collection, builds the client and dispatches to one command handler; the
\* handlers talk to Solr through HTTP requests or the pysolr client.
\* Spec is that run.  SpecConfig is the configuration file under calls of
\* load_config, update_config and create_default_config; SpecOverride is one
\* call of load_and_override_config on any file with any command line.
EXTENDS Integers, Sequences, FiniteSets, TLC

\* ---------------------------------------------------------------- bounds
\* Longest document list given with --doc.
MaxDocs == 3
\* Largest positive --batch-size tried (zero and a negative one are tried too).
MaxBatchSize == 3

\* ------------------------------------------------------- program constants
\* utils.py:97, create.py:33/66, delete.py:25, list.py:21, info.py:26
DefaultTimeout == 30
\* utils.py:171, the default for the ZooKeeper discovery connection
DefaultZkTimeout == 10

\* ------------------------------------------------------------------ values
\* Python's None for string-valued settings; "" is the other falsy string.
None == "None"
Falsy(s) == s \in {None, ""}
Truthy(s) == ~Falsy(s)
\* An optional integer is <<>> (absent) or <<n>>.
NoInt == <<>>
Some(n) == <<n>>

Commands == {"create", "delete", "list", "info", "batch", "config", "get"}

\* The connection mapping of a profile (config.py:160-166): the keys the
\* program reads.  A string key that is absent reads as None through .get().
Conn(u, z, c, us, pw, t) ==
    [solr_url |-> u, zk_hosts |-> z, collection |-> c,
     username |-> us, password |-> pw, timeout |-> t]
EmptyConn == Conn(None, None, None, None, None, NoInt)

\* str.rstrip('/') on the URL values the model uses.
RStripSlash(u) ==
    CASE u = "http://p/" -> "http://p"
      [] u = "http://p//" -> "http://p"
      [] u = "http://a/" -> "http://a"
      [] OTHER -> u

\* ------------------------------------------------------ configuration file
\* The YAML file: whether it exists, what yaml.safe_load gives for it
\* ("unparseable", "notdict", "empty" or "dict"), and for a dict the
\* profiles: name -> [kind, connection, other] with kind "notdict" (the
\* profile is not a mapping), "noconn" (no connection key), "badconn" (the
\* value under connection is not a mapping) or "ok"; other stands for the
\* profile's keys besides connection.
DEFAULT_PROFILE == "default"

Profile(kind, conn, other) == [kind |-> kind, connection |-> conn, other |-> other]
ProfileOk(conn) == Profile("ok", conn, None)
FileOf(profiles) == [exists |-> TRUE, kind |-> "dict", profiles |-> profiles]
MissingFile == [exists |-> FALSE, kind |-> "empty", profiles |-> <<>>]
BrokenFile(k) == [exists |-> TRUE, kind |-> k, profiles |-> <<>>]

\* config.py:80-93, the minimal configuration written when no sample is found
MinimalConfig ==
    FileOf([p \in {"default", "production"} |->
        IF p = "default"
        THEN ProfileOk(Conn("http://localhost:8983/solr", None,
                            "solr_manager_test", None, None, NoInt))
        ELSE ProfileOk(Conn("REPLACE_WITH_PROD_URL", None,
                            "REPLACE_WITH_PROD_COLLECTION", None, None, NoInt))])

\* config.py:65-72: the copy of config.yaml.sample.  The sample is not part
\* of the program; this stands for its content, one default profile.
SampleConfig ==
    FileOf([p \in {"default"} |->
        ProfileOk(Conn("http://localhost:8983/solr", None, "sample", None, None, NoInt))])

\* How creating the default file can end (config.py:67-102).
CreateOutcomes == {"sample", "minimal", "failed"}

\* A create_default_config that writes the minimal file whatever is there.
create_default_config_overwrite(f, how) ==
    IF how = "sample" THEN [file |-> SampleConfig, ok |-> TRUE]
    ELSE IF how = "minimal" THEN [file |-> MinimalConfig, ok |-> TRUE]
    ELSE [file |-> f, ok |-> f.exists]
\* config.py:56-105 create_default_config; how says what the file system
\* allowed: "sample" (the sample was found and copied), "minimal" (no sample
\* found, the minimal file written) or "failed".  An existing file is
\* returned as it is.
create_default_config(f, how) ==
    IF f.exists THEN [file |-> f, ok |-> TRUE]
    ELSE IF how = "sample" THEN [file |-> SampleConfig, ok |-> TRUE]
    ELSE IF how = "minimal" THEN [file |-> MinimalConfig, ok |-> TRUE]
    ELSE [file |-> f, ok |-> FALSE]

LoadResult(status, conn) == [status |-> status, config |-> conn]

\* A load that falls back on the default profile when the named one is absent.
load_config_fallback(f, profile) ==
    LET profile_name == IF Falsy(profile) THEN DEFAULT_PROFILE ELSE profile
        found == IF f.kind = "dict" /\ profile_name \notin DOMAIN f.profiles
                 THEN DEFAULT_PROFILE ELSE profile_name
    IN  IF ~f.exists THEN LoadResult("exit", EmptyConn)
        ELSE IF f.kind # "dict" THEN LoadResult("none", EmptyConn)
        ELSE IF found \notin DOMAIN f.profiles THEN LoadResult("none", EmptyConn)
        ELSE IF f.profiles[found].kind # "ok" THEN LoadResult("none", EmptyConn)
        ELSE LoadResult("ok", f.profiles[found].connection)
\* config.py:107-166 load_config on an existing file: status "none" with the
\* error logged, or "ok" with the connection mapping of the profile.
load_config(f, profile) ==
    LET profile_name == IF Falsy(profile) THEN DEFAULT_PROFILE ELSE profile
    IN  IF ~f.exists THEN LoadResult("exit", EmptyConn)
        ELSE IF f.kind # "dict" THEN LoadResult("none", EmptyConn)
        ELSE IF profile_name \notin DOMAIN f.profiles THEN LoadResult("none", EmptyConn)
        ELSE IF f.profiles[profile_name].kind # "ok" THEN LoadResult("none", EmptyConn)
        ELSE LoadResult("ok", f.profiles[profile_name].connection)

\* An override that takes an empty command-line value too.
OverrideAny(cfgval, argval) == IF argval # None THEN argval ELSE cfgval
\* utils.py:41-54: the command-line overrides.  args.timeout is not read.
Override(cfgval, argval) == IF Truthy(argval) THEN argval ELSE cfgval

ApplyOverrides(config, args) ==
    [config EXCEPT !.solr_url = Override(@, args.solr_url),
                   !.collection = Override(@, args.collection),
                   !.zk_hosts = Override(@, args.zk_hosts),
                   !.username = Override(@, args.username),
                   !.password = Override(@, args.password)]

\* utils.py:56-75: the keys required for the chosen connection method.
MissingKeys(config) ==
    IF Truthy(config.zk_hosts)
    THEN {k \in {"zk_hosts", "collection"} : Falsy(config[k])}
    ELSE {k \in {"solr_url", "collection"} : Falsy(config[k])}

\* utils.py:25-77 load_and_override_config, given what load_config returned.
load_and_override_config(args, loaded, kazoo) ==
    IF loaded.status # "ok" THEN loaded
    ELSE LET config == ApplyOverrides(loaded.config, args)
         IN  IF Truthy(config.zk_hosts) /\ ~kazoo THEN LoadResult("none", EmptyConn)
             ELSE IF Falsy(config.zk_hosts) /\ Falsy(config.solr_url)
                  THEN LoadResult("none", EmptyConn)
             ELSE IF MissingKeys(config) # {} THEN LoadResult("none", EmptyConn)
             ELSE LoadResult("ok", config)

\* cli.py:233: the collection name main resolves.
ResolveCollection(args, config) ==
    IF Truthy(args.collection) THEN args.collection ELSE config.collection

\* cli.py:236: the commands that need a collection name.
NeedsCollection(command) == command \notin {"list", "config"}

\* utils.py:97 / delete.py:25 / list.py:21 / info.py:26 / create.py:33,66:
\* config.get('timeout', 30)
ConfigTimeout(config) ==
    IF config.timeout = NoInt THEN DefaultTimeout ELSE config.timeout[1]

\* utils.py:171: config.get('timeout', 10) for the discovery connection
ZkTimeout(config) ==
    IF config.timeout = NoInt THEN DefaultZkTimeout ELSE config.timeout[1]

\* --------------------------------------------------------- client and URLs
\* utils.py:79-139 initialize_solr_client; ctor_ok says whether the pysolr /
\* kazoo constructors returned (an exception they raise is caught and gives
\* None).  The client remembers how it was built and the timeout it was given.
NoClient == [kind |-> "none", timeout |-> NoInt, collection |-> None]

\* A client built for the direct URL when both connection keys are set.
initialize_solr_client_url_first(config, collection_name, kazoo, ctor_ok) ==
    LET timeout == ConfigTimeout(config)
    IN  IF Truthy(config.solr_url)
        THEN IF ~ctor_ok THEN NoClient
             ELSE [kind |-> "Solr", timeout |-> Some(timeout),
                   collection |-> collection_name]
        ELSE IF Truthy(config.zk_hosts)
        THEN IF ~kazoo \/ ~ctor_ok THEN NoClient
             ELSE [kind |-> "SolrCloud", timeout |-> Some(timeout),
                   collection |-> collection_name]
        ELSE NoClient
initialize_solr_client(config, collection_name, kazoo, ctor_ok) ==
    LET timeout == ConfigTimeout(config)
    IN  IF Truthy(config.zk_hosts)
        THEN IF ~kazoo \/ ~ctor_ok THEN NoClient
             ELSE [kind |-> "SolrCloud", timeout |-> Some(timeout),
                   collection |-> collection_name]
        ELSE IF Truthy(config.solr_url)
        THEN IF ~ctor_ok THEN NoClient
             ELSE [kind |-> "Solr", timeout |-> Some(timeout),
                   collection |-> collection_name]
        ELSE NoClient

\* A _get_base_solr_url that falls back to a node of the ZooKeeper ensemble.
get_base_solr_url_discovering(config) ==
    IF Truthy(config.solr_url) THEN RStripSlash(config.solr_url)
    ELSE IF Truthy(config.zk_hosts) THEN "http://h1:8983/solr"
    ELSE None

\* create.py:18-22 _get_base_solr_url
get_base_solr_url(config) ==
    IF Truthy(config.solr_url) THEN RStripSlash(config.solr_url) ELSE None

\* The elements of a sequence.
Range(s) == {s[i] : i \in 1..Len(s)}

\* str.split(':') and str.split('_') on the node names and their parts that
\* the model uses.
SplitColon(name) ==
    CASE name = "h1:8983_solr" -> <<"h1", "8983_solr">>
      [] name = "h2:7574_search" -> <<"h2", "7574_search">>
      [] name = "h:1:2_solr" -> <<"h", "1", "2_solr">>
      [] name = "h3:8983" -> <<"h3", "8983">>
      [] name = "h3:8983_a_b" -> <<"h3", "8983_a_b">>
      [] OTHER -> <<name>>
SplitUnderscore(part) ==
    CASE part = "8983_solr" -> <<"8983", "solr">>
      [] part = "7574_search" -> <<"7574", "search">>
      [] part = "8983_a_b" -> <<"8983", "a", "b">>
      [] OTHER -> <<part>>

\* utils.py:187-202: the base URL built from a live node's name, None when
\* the name is not host:port_context.
NodeUrl(node) ==
    LET parts == SplitColon(node)
    IN  IF Len(parts) # 2 THEN None
        ELSE LET port_context == SplitUnderscore(parts[2])
             IN  IF Len(port_context) # 2 THEN None
                 ELSE "http://" \o parts[1] \o ":" \o port_context[1]
                          \o "/" \o port_context[2]

\* What ZooKeeper does during one discovery (utils.py:167-206): the step
\* that raises, if any ("ctor": KazooClient(...), "start": zk.start(),
\* "children": zk.get_children), the children of /live_nodes, and the
\* position random.choice picks.
ZkEnv(raises, live_nodes, pick) ==
    [raises |-> raises, live_nodes |-> live_nodes, pick |-> pick]
LiveNodeLists ==
    {<<"h1:8983_solr">>, <<"h1:8983_solr", "h2:7574_search">>,
     <<"h2:7574_search", "nocolon_solr">>, <<"h:1:2_solr">>, <<"h3:8983">>,
     <<"h3:8983_a_b">>}
DiscoveryOutcomes ==
    {ZkEnv(r, <<>>, 0) : r \in {"ctor", "start", "children", "none"}}
    \cup UNION {{ZkEnv("none", l, k) : k \in 1..Len(l)} : l \in LiveNodeLists}

\* A discovery that takes any well-formed name, chosen or not.
get_admin_base_url_first_node(config, kazoo, disc) ==
    IF Truthy(config.solr_url) THEN RStripSlash(config.solr_url)
    ELSE IF Truthy(config.zk_hosts)
         THEN IF ~kazoo \/ disc.raises # "none" \/ disc.live_nodes = <<>> THEN None
              ELSE NodeUrl(disc.live_nodes[1])
    ELSE None

\* utils.py:149-215 get_admin_base_url; disc is what ZooKeeper does.
get_admin_base_url(config, kazoo, disc) ==
    IF Truthy(config.solr_url) THEN RStripSlash(config.solr_url)
    ELSE IF Truthy(config.zk_hosts)
         THEN IF ~kazoo \/ disc.raises # "none" \/ disc.live_nodes = <<>> THEN None
              ELSE NodeUrl(disc.live_nodes[disc.pick])
    ELSE None

\* A discovery that goes to ZooKeeper whenever zk_hosts is configured.
UsesDiscoveryZkFirst(config, kazoo) ==
    Truthy(config.zk_hosts) /\ kazoo
\* Whether get_admin_base_url goes to ZooKeeper (utils.py:159-172).
UsesDiscovery(config, kazoo) ==
    Falsy(config.solr_url) /\ Truthy(config.zk_hosts) /\ kazoo

\* ------------------------------------------------------- argument parsing
\* The ID files the model knows: the lines of a readable one, after strip().
IdFileReadable(path) == path \in {"ids.txt", "blank.txt"}
IdFileLines(path) ==
    CASE path = "ids.txt" -> <<"f1", "", "f2">>
      [] path = "blank.txt" -> <<"", "">>
      [] OTHER -> <<>>

RECURSIVE NonEmpty(_)
NonEmpty(s) ==
    IF s = <<>> THEN <<>>
    ELSE IF Head(s) = "" THEN NonEmpty(Tail(s))
    ELSE <<Head(s)>> \o NonEmpty(Tail(s))

\* batch.py:13-27 / get.py:9-23 _parse_ids.  args.ids holds the stripped
\* pieces of the comma-separated string, <<>> when the option is not given.
parse_ids(args) ==
    IF Truthy(args.id_file)
    THEN IF IdFileReadable(args.id_file)
         THEN [ok |-> TRUE, ids |-> NonEmpty(IdFileLines(args.id_file))]
         ELSE [ok |-> FALSE, ids |-> <<>>]
    ELSE [ok |-> TRUE, ids |-> NonEmpty(args.ids)]

\* The --doc argument: kind "none" (not given), "invalid" (not JSON), "dict"
\* (one object), "list" (n objects), "mixed" (a list with a non-object) or
\* "scalar".  Documents are named by their position in the parsed list.
DocArg(kind, n) == [kind |-> kind, n |-> n]
DocList(n) == [k \in 1..n |-> k]

\* batch.py:29-52 _parse_docs_from_arg
parse_docs_from_arg(doc) ==
    CASE doc.kind = "dict" -> [ok |-> TRUE, docs |-> DocList(1)]
      [] doc.kind = "list" -> [ok |-> TRUE, docs |-> DocList(doc.n)]
      [] OTHER -> [ok |-> FALSE, docs |-> <<>>]

\* batch.py:72: docs_to_add is None unless --doc is given and parses.
DocsToAdd(args) ==
    IF args.doc.kind = "none" THEN [ok |-> FALSE, docs |-> <<>>]
    ELSE parse_docs_from_arg(args.doc)

Min(a, b) == IF a < b THEN a ELSE b

\* math.ceil(n / b) for n >= 0 and b # 0 (batch.py:95)
CeilDiv(n, b) == IF b > 0 THEN (n + b - 1) \div b ELSE -(n \div (-b))

\* Python's s[lo:hi] for 0 <= lo, hi
PySlice(s, lo, hi) == SubSeq(s, Min(lo, Len(s)) + 1, Min(hi, Len(s)))

\* A slice that runs one document into the next batch.
BatchDocsOverlap(docs, i, batch_size) ==
    PySlice(docs, i * batch_size, (i + 1) * batch_size + 1)

\* batch.py:99: the documents of batch i
BatchDocs(docs, i, batch_size) == PySlice(docs, i * batch_size, (i + 1) * batch_size)

\* ------------------------------------------------------------------ inputs
\* The parsed command line (cli.py:215).  Options that a command does not
\* read keep the values argparse gives them when they are not on the line.
DefaultFields == "*"
DefaultLimit == 10
Args(command, collection, timeout, solr_url) ==
    [command |-> command, profile |-> None, collection |-> collection,
     timeout |-> timeout, solr_url |-> solr_url, zk_hosts |-> None,
     username |-> None, password |-> None,
     configset |-> None, overwrite |-> FALSE,
     add_update |-> FALSE, delete_docs |-> FALSE, doc |-> DocArg("none", 0),
     commit |-> TRUE, batch_size |-> 1,
     id_file |-> None, ids |-> <<>>, query |-> None,
     fields |-> DefaultFields, limit |-> DefaultLimit, sort |-> None,
     format |-> "json", output |-> None]

ConnectionArgs(command) ==
    {Args(command, c, t, u) :
        c \in {None, "argcol"}, t \in {NoInt, Some(5)}, u \in {None, "http://a/"}}

DocArgs ==
    {DocArg("none", 0), DocArg("invalid", 0), DocArg("dict", 1)}
    \cup {DocArg("list", n) : n \in 0..MaxDocs}

BatchSizes == {-1, 0} \cup (1..MaxBatchSize)

CreateArgs ==
    {[a EXCEPT !.configset = cs, !.overwrite = ow] :
        a \in ConnectionArgs("create"), cs \in {None, "_default"}, ow \in BOOLEAN}

\* The document selectors (cli.py:126-138, 170-185).  The batch options and
\* the get options write the same three attributes, so more than one of
\* them can be set on one command line.
Selectors ==
    {[id_file |-> f, ids |-> i, query |-> q] :
        f \in {None, "ids.txt", "blank.txt", "gone.txt"}, i \in {<<>>, <<"i1", "", "i:2">>},
        q \in {None, "q:1"}}

BatchAddArgs ==
    {[a EXCEPT !.add_update = TRUE, !.doc = d, !.commit = cm, !.batch_size = b,
               !.id_file = f] :
        a \in ConnectionArgs("batch"), d \in DocArgs, cm \in BOOLEAN, b \in BatchSizes,
        f \in {None, "gone.txt"}}

BatchDeleteArgs ==
    {[a EXCEPT !.delete_docs = TRUE, !.commit = cm, !.doc = d,
               !.id_file = s.id_file, !.ids = s.ids, !.query = s.query] :
        a \in ConnectionArgs("batch"), cm \in BOOLEAN,
        d \in {DocArg("none", 0), DocArg("invalid", 0), DocArg("dict", 1)},
        s \in Selectors}

\* batch with neither --add-update nor --delete-docs
BatchNoOpArgs ==
    {[a EXCEPT !.doc = d, !.ids = i] :
        a \in ConnectionArgs("batch"),
        d \in {DocArg("none", 0), DocArg("invalid", 0), DocArg("dict", 1)},
        i \in {<<>>, <<"i1", "", "i:2">>}}

\* --fields, --limit and --sort (cli.py:187-203)
GetParams ==
    {[fields |-> DefaultFields, limit |-> DefaultLimit, sort |-> None],
     [fields |-> "id,name", limit |-> DefaultLimit, sort |-> ""],
     [fields |-> "id,name", limit |-> 2, sort |-> "id asc"]}

\* --format and --output (cli.py:204-213): the format is one of the two
\* choices, the output a path, empty or not given.
GetOutputs ==
    {[format |-> "json", output |-> None], [format |-> "csv", output |-> None],
     [format |-> "csv", output |-> ""],
     [format |-> "json", output |-> "out.json"], [format |-> "csv", output |-> "out.csv"]}

GetArgs ==
    {[a EXCEPT !.id_file = s.id_file, !.ids = s.ids, !.query = s.query,
               !.fields = g.fields, !.limit = g.limit, !.sort = g.sort,
               !.format = o.format, !.output = o.output] :
        a \in ConnectionArgs("get"), s \in Selectors, g \in GetParams,
        o \in {[format |-> "json", output |-> None]}}
    \cup {[a EXCEPT !.id_file = s.id_file, !.ids = s.ids, !.query = s.query,
                    !.format = o.format, !.output = o.output] :
            a \in ConnectionArgs("get"), s \in Selectors, o \in GetOutputs}

ArgsSet ==
    CreateArgs \cup BatchAddArgs \cup BatchDeleteArgs \cup BatchNoOpArgs \cup GetArgs
    \cup UNION {ConnectionArgs(c) : c \in {"delete", "list", "info", "config"}}

\* The configuration files tried: none, broken ones, and a default profile
\* with every combination of the connection keys.
ProfileConns ==
    {Conn(u, z, c, None, None, t) :
        u \in {None, "http://p/"}, z \in {None, "zk1:2181"},
        c \in {None, "profcol"}, t \in {NoInt, Some(7)}}

ConfigFiles ==
    {MissingFile, BrokenFile("unparseable"), BrokenFile("empty")}
    \cup {FileOf([p \in {"default"} |-> ProfileOk(conn)]) : conn \in ProfileConns}
    \cup {FileOf([p \in {"default"} |-> Profile("noconn", EmptyConn, None)]),
          FileOf([p \in {"production"} |-> ProfileOk(EmptyConn)])}

\* ------------------------------------------------------------------- state
VARIABLES
    args,             \* the parsed command line
    file,             \* the configuration file
    kazoo_imported,   \* utils.py:13-18
    pc,               \* where the run is
    config,           \* main's config (cli.py:226)
    collection_name,  \* main's collection_name (cli.py:233)
    solr_client,      \* main's solr_client (cli.py:246)
    calls,            \* the calls and requests made so far, in order
    log,              \* the relevant log records, in order
    exit_code,        \* <<>> while running, <<status>> once the process ended
    caller,           \* who called delete_collection: "main" or "create"
    docs_to_add,      \* batch_operations' docs_to_add
    num_batches,      \* batch_operations' num_batches
    batch_i           \* the loop index i of batch.py:98

vars == <<args, file, kazoo_imported, pc, config, collection_name, solr_client,
          calls, log, exit_code, caller, docs_to_add, num_batches, batch_i>>

\* One call or request: what was called and by whom (main, or a handler that
\* calls another), the timeout, the documents or IDs and the query it was
\* given, its commit flag, and how it ended.
Ev(op) ==
    [op |-> op, by |-> "main", timeout |-> NoInt, docs |-> <<>>, q |-> None,
     commit |-> FALSE, outcome |-> "ok", url |-> None]
Http(action, timeout, outcome) ==
    [Ev(action) EXCEPT !.timeout = Some(timeout), !.outcome = outcome]

HttpOutcomes ==
    {"ok", "timeout", "connection_error", "http_error", "error_body", "unexpected_body"}
ClientOutcomes == {"ok", "SolrError", "Exception"}

Init ==
    /\ args \in ArgsSet
    /\ file \in ConfigFiles
    /\ kazoo_imported \in BOOLEAN
    /\ pc = "main"
    /\ config = EmptyConn
    /\ collection_name = None
    /\ solr_client = NoClient
    /\ calls = <<>>
    /\ log = <<>>
    /\ exit_code = <<>>
    /\ caller = "main"
    /\ docs_to_add = <<>>
    /\ num_batches = 0
    /\ batch_i = 0

\* sys.exit(status), or main returning (status 0).
Exit(status) == pc' = "done" /\ exit_code' = Some(status)

\* A handler returns to main, which then falls off its end (cli.py:297-304).
Return == Exit(0)

\* An except clause that logs and lets main return.
RaiseSwallowed(entries) ==
    /\ log' = log \o entries \o <<"error:command_execution">>
    /\ Exit(0)

\* An exception reaches main's except clause (cli.py:299-304).
Raise(entries) ==
    /\ log' = log \o entries \o <<"error:command_execution">>
    /\ Exit(1)

ErrorIf(cond, entry) == IF cond THEN <<entry>> ELSE <<>>

\* ------------------------------------------------------------------- main
\* cli.py:218-221: the config command.  show_config_info either ends the
\* process or returns; main has no return of its own after the call.
ShowConfigInfo ==
    /\ pc = "main"
    /\ args.command = "config"
    /\ calls' = Append(calls, Ev("show_config_info"))
    /\ \E ends \in BOOLEAN :
        IF ends THEN Exit(0) ELSE pc' = "load" /\ exit_code' = exit_code
    /\ UNCHANGED <<args, file, kazoo_imported, config, collection_name, solr_client,
                   log, caller, docs_to_add, num_batches, batch_i>>

\* main with neither the validation of load_and_override_config nor the
\* collection check: whatever the profile and the overrides give is used.
LoadConfigUnchecked ==
    /\ \/ pc = "main" /\ args.command # "config"
       \/ pc = "load"
    /\ calls' = Append(calls, Ev("load_and_override_config"))
    /\ LET loaded == load_config(file, args.profile)
       IN  IF loaded.status = "exit"
           THEN /\ \E how \in CreateOutcomes :
                     file' = create_default_config(file, how).file
                /\ Exit(1)
                /\ UNCHANGED <<config, collection_name, log>>
           ELSE IF loaded.status = "none"
           THEN /\ log' = Append(log, "error:config_failed")
                /\ Exit(1)
                /\ UNCHANGED <<file, config, collection_name>>
           ELSE /\ config' = ApplyOverrides(loaded.config, args)
                /\ collection_name' = ResolveCollection(args, config')
                /\ file' = file
                /\ pc' = "init"
                /\ UNCHANGED <<log, exit_code>>
    /\ UNCHANGED <<args, kazoo_imported, solr_client, caller, docs_to_add,
                   num_batches, batch_i>>

\* cli.py:226-239: load the configuration, resolve the collection name.
\* load_config ends the process itself when the file is missing, after
\* create_default_config tried to write one (config.py:119-125).
LoadConfig ==
    /\ \/ pc = "main" /\ args.command # "config"
       \/ pc = "load"
    /\ calls' = Append(calls, Ev("load_and_override_config"))
    /\ LET loaded == load_config(file, args.profile)
           r == load_and_override_config(args, loaded, kazoo_imported)
           name == ResolveCollection(args, r.config)
       IN  IF r.status = "exit"
           THEN /\ \E how \in CreateOutcomes :
                     file' = create_default_config(file, how).file
                /\ Exit(1)
                /\ UNCHANGED <<config, collection_name, log>>
           ELSE IF r.status = "none"
           THEN /\ log' = Append(log, "error:config_failed")
                /\ Exit(1)
                /\ UNCHANGED <<file, config, collection_name>>
           ELSE /\ config' = r.config
                /\ collection_name' = name
                /\ file' = file
                /\ IF NeedsCollection(args.command) /\ Falsy(name)
                   THEN log' = Append(log, "error:collection_required") /\ Exit(1)
                   ELSE pc' = "init" /\ UNCHANGED <<log, exit_code>>
    /\ UNCHANGED <<args, kazoo_imported, solr_client, caller, docs_to_add,
                   num_batches, batch_i>>

\* cli.py:246-249 with utils.py:79-139
InitClient ==
    /\ pc = "init"
    /\ \E ctor_ok \in BOOLEAN :
        LET c == initialize_solr_client(config, collection_name, kazoo_imported, ctor_ok)
        IN  /\ calls' = Append(calls,
                  [Ev("initialize_solr_client") EXCEPT
                      !.timeout = Some(ConfigTimeout(config)),
                      !.outcome = IF c = NoClient THEN "none" ELSE "ok"])
            /\ solr_client' = c
            /\ IF c = NoClient
               THEN log' = Append(log, "error:client_failed") /\ Exit(1)
               ELSE pc' = "dispatch" /\ UNCHANGED <<log, exit_code>>
    /\ UNCHANGED <<args, file, kazoo_imported, config, collection_name, caller,
                   docs_to_add, num_batches, batch_i>>

\* A dispatch table with two branches exchanged.
HandlerOfSwapped(command) ==
    CASE command = "create" -> "create_collection"
      [] command = "delete" -> "delete_collection"
      [] command = "list" -> "collection_info"
      [] command = "info" -> "list_collections"
      [] command = "batch" -> "batch_operations"
      [] command = "get" -> "get_documents"
      [] OTHER -> None

\* cli.py:251-297: the handler of each command word.
HandlerOf(command) ==
    CASE command = "create" -> "create_collection"
      [] command = "delete" -> "delete_collection"
      [] command = "list" -> "list_collections"
      [] command = "info" -> "collection_info"
      [] command = "batch" -> "batch_operations"
      [] command = "get" -> "get_documents"
      [] OTHER -> None

Handlers == {HandlerOf(c) : c \in Commands \ {"config"}}

\* cli.py:251-297: dispatch.  create without --configset ends with status 1;
\* a command with no branch (config, after show_config_info returned) falls
\* off the end of main.
Dispatch ==
    /\ pc = "dispatch"
    /\ IF args.command = "create" /\ Falsy(args.configset)
       THEN log' = Append(log, "error:configset_required") /\ Exit(1) /\ calls' = calls
       ELSE IF HandlerOf(args.command) = None
       THEN Exit(0) /\ UNCHANGED <<log, calls>>
       ELSE /\ calls' = Append(calls, Ev(HandlerOf(args.command)))
            /\ pc' = HandlerOf(args.command)
            /\ UNCHANGED <<log, exit_code>>
    /\ UNCHANGED <<args, file, kazoo_imported, config, collection_name, solr_client,
                   caller, docs_to_add, num_batches, batch_i>>

\* --------------------------------------------------------------- handlers
HandlerFrame == <<args, file, kazoo_imported, config, collection_name, solr_client>>

\* A discovery that stops and closes the client only on its successful path.
DiscoveryTraceNoFinally(cfg, kazoo, disc) ==
    LET Zk(op, raised) == [Ev(op) EXCEPT !.by = "get_admin_base_url",
                              !.outcome = IF raised THEN "raised" ELSE "ok"]
        ctor == [Zk("KazooClient", disc.raises = "ctor") EXCEPT
                    !.timeout = Some(ZkTimeout(cfg))]
        start == Zk("zk.start", disc.raises = "start")
        children == [Zk("zk.get_children", disc.raises = "children") EXCEPT
                        !.docs = disc.live_nodes]
        choice == [Zk("random.choice", FALSE) EXCEPT
                      !.docs = disc.live_nodes, !.q = disc.live_nodes[disc.pick]]
        finally == <<Zk("zk.stop", FALSE), Zk("zk.close", FALSE)>>
    IN  IF ~UsesDiscovery(cfg, kazoo) THEN <<>>
        ELSE IF disc.raises = "ctor" THEN <<ctor>>
        ELSE IF disc.raises = "start" THEN <<ctor, start>>
        ELSE IF disc.raises = "children" THEN <<ctor, start, children>>
        ELSE IF disc.live_nodes = <<>> THEN <<ctor, start, children>> \o finally
        ELSE <<ctor, start, children, choice>> \o finally
\* The calls get_admin_base_url makes when it goes to ZooKeeper
\* (utils.py:167-211), in order.  A constructor that raises leaves zk None,
\* so the finally block stops and closes nothing; on every other path it
\* calls zk.stop() and zk.close() once each.  random.choice is recorded with
\* the list it chose from (docs) and the name it chose (q).
DiscoveryTrace(cfg, kazoo, disc) ==
    LET Zk(op, raised) == [Ev(op) EXCEPT !.by = "get_admin_base_url",
                              !.outcome = IF raised THEN "raised" ELSE "ok"]
        ctor == [Zk("KazooClient", disc.raises = "ctor") EXCEPT
                    !.timeout = Some(ZkTimeout(cfg))]
        start == Zk("zk.start", disc.raises = "start")
        children == [Zk("zk.get_children", disc.raises = "children") EXCEPT
                        !.docs = disc.live_nodes]
        choice == [Zk("random.choice", FALSE) EXCEPT
                      !.docs = disc.live_nodes, !.q = disc.live_nodes[disc.pick]]
        finally == <<Zk("zk.stop", FALSE), Zk("zk.close", FALSE)>>
    IN  IF ~UsesDiscovery(cfg, kazoo) THEN <<>>
        ELSE IF disc.raises = "ctor" THEN <<ctor>>
        ELSE IF disc.raises = "start" THEN <<ctor, start>> \o finally
        ELSE IF disc.raises = "children" \/ disc.live_nodes = <<>>
        THEN <<ctor, start, children>> \o finally
        ELSE <<ctor, start, children, choice>> \o finally

\* The log record an HTTP outcome leaves (delete.py:34-52, create.py:107-130,
\* list.py:30-54, info.py:35-70): every outcome but success logs an error.
HttpLog(action, outcome) == ErrorIf(outcome # "ok", "error:" \o action \o ":" \o outcome)

\* What the LIST request of _check_collection_exists met (create.py:36-39):
\* requests.get or raise_for_status raising ("timeout", "http_error"),
\* response.json() raising ("bad_json"), or a JSON object, whose
\* "collections" key is absent (<<>>) or holds a list (<<list>>).
ListResponse(outcome, collections) == [outcome |-> outcome, collections |-> collections]
ListResponses ==
    {ListResponse(o, <<>>) : o \in {"timeout", "http_error", "bad_json"}}
    \cup {ListResponse("ok", c) :
            c \in {<<>>, << <<>> >>, << <<"argcol">> >>, << <<"other", "profcol">> >>,
                   << <<"other", "argcol", "profcol">> >>, << <<"other">> >>}}

\* response_json.get('collections', []) (create.py:39)
CollectionsOf(resp) ==
    IF resp.collections = <<>> THEN <<>> ELSE resp.collections[1]

\* The three answers of the LIST request, as the request is recorded.
ListAnswers == {"failed", "named", "not_named"}
ListAnswer(name, resp) ==
    IF resp.outcome # "ok" THEN "failed"
    ELSE IF \E i \in 1..Len(CollectionsOf(resp)) : CollectionsOf(resp)[i] = name
    THEN "named" ELSE "not_named"

\* An existence check that never finds the collection.
check_collection_exists_never(base_url, name, resp) == FALSE

\* An existence check that takes a failed request for an existing collection.
check_collection_exists_conservative(base_url, name, resp) ==
    IF base_url = None THEN FALSE
    ELSE IF resp.outcome # "ok" THEN TRUE
    ELSE name \in Range(CollectionsOf(resp))

\* create.py:25-42 _check_collection_exists
check_collection_exists(base_url, name, resp) ==
    IF base_url = None THEN FALSE
    ELSE IF resp.outcome # "ok" THEN FALSE
    ELSE name \in Range(CollectionsOf(resp))

\* The LIST request of the existence check as it is recorded: with the
\* answer, the collections named and what the check returned.
ListCall(cfg, name, resp) ==
    [op |-> "LIST", by |-> "main", timeout |-> Some(ConfigTimeout(cfg)),
     docs |-> CollectionsOf(resp), q |-> ListAnswer(name, resp), commit |-> FALSE,
     outcome |-> resp.outcome, url |-> get_base_solr_url(cfg),
     exists |-> check_collection_exists(get_base_solr_url(cfg), name, resp)]

\* create_collection overwriting without the delete: an existing collection
\* goes straight to the CREATE request.
CreateCheckSkipsDelete ==
    /\ pc = "create_collection"
    /\ IF Falsy(collection_name) \/ Falsy(args.configset)
       THEN /\ log' = Append(log, "error:create_argument_missing")
            /\ Return
            /\ UNCHANGED <<calls, caller>>
       ELSE IF get_base_solr_url(config) = None
       THEN /\ log' = log \o <<"warning:no_base_url", "error:no_base_url">>
            /\ Return
            /\ UNCHANGED <<calls, caller>>
       ELSE \E resp \in ListResponses :
            LET list == ListCall(config, collection_name, resp)
                answer == list.q
                exists == list.exists
            IN  IF exists /\ ~args.overwrite
                THEN /\ calls' = Append(calls, list)
                     /\ log' = Append(log, "warning:already_exists")
                     /\ Return
                     /\ caller' = caller
                ELSE /\ calls' = Append(calls, list)
                     /\ log' = log \o ErrorIf(answer = "failed", "warning:check_failed")
                     /\ pc' = "create_request"
                     /\ UNCHANGED <<caller, exit_code>>
    /\ UNCHANGED <<HandlerFrame, docs_to_add, num_batches, batch_i>>

\* create.py:53-80: the checks of create_collection, the existence check and
\* the decision to delete first.
CreateCheck ==
    /\ pc = "create_collection"
    /\ IF Falsy(collection_name) \/ Falsy(args.configset)
       THEN /\ log' = Append(log, "error:create_argument_missing")
            /\ Return
            /\ UNCHANGED <<calls, caller>>
       ELSE IF get_base_solr_url(config) = None
       THEN /\ log' = log \o <<"warning:no_base_url", "error:no_base_url">>
            /\ Return
            /\ UNCHANGED <<calls, caller>>
       ELSE \E resp \in ListResponses :
            LET list == ListCall(config, collection_name, resp)
                answer == list.q
                exists == list.exists
            IN  IF exists /\ args.overwrite
                THEN /\ calls' = calls \o <<list, [Ev("delete_collection") EXCEPT
                                                      !.by = "create_collection"]>>
                     /\ log' = Append(log, "warning:overwriting")
                     /\ pc' = "delete_collection"
                     /\ caller' = "create"
                     /\ exit_code' = exit_code
                ELSE IF exists
                THEN /\ calls' = Append(calls, list)
                     /\ log' = Append(log, "warning:already_exists")
                     /\ Return
                     /\ caller' = caller
                ELSE /\ calls' = Append(calls, list)
                     /\ log' = log \o ErrorIf(answer = "failed", "warning:check_failed")
                     /\ pc' = "create_request"
                     /\ UNCHANGED <<caller, exit_code>>
    /\ UNCHANGED <<HandlerFrame, docs_to_add, num_batches, batch_i>>

\* delete.py:10-52 delete_collection.  Every failure is logged and the
\* function returns normally; called from create_collection (create.py:74-77)
\* the caller then sleeps and goes on to the CREATE request.
DeleteCollection ==
    /\ pc = "delete_collection"
    /\ \E disc \in DiscoveryOutcomes, outcome \in HttpOutcomes :
        LET base_url == get_admin_base_url(config, kazoo_imported, disc)
            lookup == DiscoveryTrace(config, kazoo_imported, disc)
            after == IF caller = "create" THEN <<Ev("sleep")>> ELSE <<>>
        IN  IF Falsy(collection_name)
            THEN /\ calls' = calls \o after
                 /\ log' = Append(log, "error:delete_argument_missing")
            ELSE IF base_url = None
            THEN /\ calls' = calls \o lookup \o after
                 /\ log' = Append(log, "error:no_base_url")
            ELSE /\ calls' = calls \o lookup
                        \o <<[Http("DELETE", ConfigTimeout(config), outcome)
                                 EXCEPT !.url = base_url]>> \o after
                 /\ log' = log \o HttpLog("DELETE", outcome)
    /\ IF caller = "create"
       THEN pc' = "create_request" /\ exit_code' = exit_code
       ELSE Return
    /\ UNCHANGED <<HandlerFrame, caller, docs_to_add, num_batches, batch_i>>

\* create.py:82-130: the CREATE request, sent with twice the timeout.
CreateRequest ==
    /\ pc = "create_request"
    /\ \E outcome \in HttpOutcomes :
        /\ calls' = Append(calls, [Http("CREATE", ConfigTimeout(config) * 2, outcome)
                                      EXCEPT !.url = get_base_solr_url(config)])
        /\ log' = log \o HttpLog("CREATE", outcome)
    /\ Return
    /\ UNCHANGED <<HandlerFrame, caller, docs_to_add, num_batches, batch_i>>

\* A handler that tries the request a second time when the first one fails.
AdminRequestRetry(action) ==
    /\ \E disc \in DiscoveryOutcomes, outcome \in HttpOutcomes, again \in HttpOutcomes :
        LET base_url == get_admin_base_url(config, kazoo_imported, disc)
            lookup == DiscoveryTrace(config, kazoo_imported, disc)
            request(o) == [Http(action, ConfigTimeout(config), o) EXCEPT !.url = base_url]
        IN  IF base_url = None
            THEN /\ calls' = calls \o lookup
                 /\ log' = Append(log, "error:no_base_url")
            ELSE IF outcome = "ok"
            THEN /\ calls' = calls \o lookup \o <<request(outcome)>>
                 /\ log' = log
            ELSE /\ calls' = calls \o lookup \o <<request(outcome), request(again)>>
                 /\ log' = log \o HttpLog(action, outcome) \o HttpLog(action, again)
    /\ Return
    /\ UNCHANGED <<HandlerFrame, caller, docs_to_add, num_batches, batch_i>>
\* A handler that sends one Collections API request through
\* get_admin_base_url: list.py:10-54 and info.py:11-70.
AdminRequest(action) ==
    /\ \E disc \in DiscoveryOutcomes, outcome \in HttpOutcomes :
        LET base_url == get_admin_base_url(config, kazoo_imported, disc)
            lookup == DiscoveryTrace(config, kazoo_imported, disc)
        IN  IF base_url = None
            THEN /\ calls' = calls \o lookup
                 /\ log' = Append(log, "error:no_base_url")
            ELSE /\ calls' = calls \o lookup
                        \o <<[Http(action, ConfigTimeout(config), outcome)
                                 EXCEPT !.url = base_url]>>
                 /\ log' = log \o HttpLog(action, outcome)
    /\ Return
    /\ UNCHANGED <<HandlerFrame, caller, docs_to_add, num_batches, batch_i>>

\* list.py:10-54
ListCollections ==
    /\ pc = "list_collections"
    /\ AdminRequest("LIST")

\* info.py:11-70.  A status-0 answer that does not name the collection is
\* logged as an error too (info.py:47); it is the outcome "error_body" here.
CollectionInfo ==
    /\ pc = "collection_info"
    /\ IF Falsy(collection_name)
       THEN /\ log' = Append(log, "error:info_argument_missing")
            /\ Return
            /\ UNCHANGED <<HandlerFrame, calls, caller, docs_to_add, num_batches, batch_i>>
       ELSE AdminRequest("CLUSTERSTATUS")

\* ------------------------------------------------------------------ batch
\* batch.py:57-95 and the choice of operation (batch.py:87, 120, 151):
\* parse the selectors and the documents, count the batches.
\* math.ceil(len / batch_size) is outside every try block: a batch size of
\* zero raises ZeroDivisionError through to main.  A --doc that does not
\* parse is logged by the helper whatever the operation, and ends the
\* handler only under --add-update (batch.py:73).
BatchParse ==
    /\ pc = "batch_operations"
    /\ LET ids == parse_ids(args)
           parsed == DocsToAdd(args)
           doc_error == ErrorIf(args.doc.kind # "none" /\ ~parsed.ok, "error:doc_json")
       IN  IF ~ids.ok
           THEN /\ log' = log \o <<"error:id_file", "error:parse_ids">>
                /\ Return
                /\ UNCHANGED <<docs_to_add, num_batches, batch_i>>
           ELSE IF args.add_update /\ ~parsed.ok /\ args.doc.kind # "none"
           THEN /\ log' = log \o doc_error \o <<"error:parse_docs">>
                /\ Return
                /\ UNCHANGED <<docs_to_add, num_batches, batch_i>>
           ELSE IF args.add_update /\ parsed.docs = <<>>
           THEN /\ log' = Append(log, "error:add_update_needs_doc")
                /\ Return
                /\ UNCHANGED <<docs_to_add, num_batches, batch_i>>
           ELSE IF args.add_update /\ args.batch_size = 0
           THEN /\ Raise(<<>>)
                /\ UNCHANGED <<docs_to_add, num_batches, batch_i>>
           ELSE IF args.add_update
           THEN /\ docs_to_add' = parsed.docs
                /\ num_batches' = CeilDiv(Len(parsed.docs), args.batch_size)
                /\ batch_i' = 0
                /\ pc' = "batch_add"
                /\ UNCHANGED <<log, exit_code>>
           ELSE IF args.delete_docs
           THEN /\ pc' = "batch_delete"
                /\ log' = log \o doc_error
                /\ UNCHANGED <<exit_code, docs_to_add, num_batches, batch_i>>
           ELSE /\ log' = log \o doc_error \o <<"error:no_operation">>
                /\ Return
                /\ UNCHANGED <<docs_to_add, num_batches, batch_i>>
    /\ UNCHANGED <<HandlerFrame, calls, caller>>

\* What client.add is called with in iteration i (batch.py:99-101).
AddCall(docs, i, batch_size, outcome) ==
    [Ev("client.add") EXCEPT !.docs = BatchDocs(docs, i, batch_size),
                             !.commit = FALSE, !.outcome = outcome]

\* The loop with the failure handled inside it: a failed batch is logged and
\* the loop goes on to the next one.
BatchAddContinue ==
    /\ pc = "batch_add"
    /\ batch_i < num_batches
    /\ \E outcome \in ClientOutcomes :
        /\ calls' = Append(calls, AddCall(docs_to_add, batch_i, args.batch_size, outcome))
        /\ log' = log \o ErrorIf(outcome # "ok", "error:add:" \o outcome)
    /\ batch_i' = batch_i + 1
    /\ UNCHANGED <<pc, exit_code, HandlerFrame, caller, docs_to_add, num_batches>>

\* batch.py:98-101 with 112-117: one iteration of the loop.  A failure of
\* client.add leaves the try block: it is logged and the handler returns.
BatchAdd ==
    /\ pc = "batch_add"
    /\ batch_i < num_batches
    /\ \E outcome \in ClientOutcomes :
        /\ calls' = Append(calls, AddCall(docs_to_add, batch_i, args.batch_size, outcome))
        /\ IF outcome = "ok"
           THEN /\ batch_i' = batch_i + 1
                /\ UNCHANGED <<pc, log, exit_code>>
           ELSE /\ log' = Append(log, "error:add:" \o outcome)
                /\ Return
                /\ batch_i' = batch_i
    /\ UNCHANGED <<HandlerFrame, caller, docs_to_add, num_batches>>

\* The commit made whatever the commit option says.
BatchCommitAlways ==
    /\ pc = "batch_add"
    /\ batch_i >= num_batches
    /\ \E outcome \in ClientOutcomes :
        /\ calls' = Append(calls, [Ev("client.commit") EXCEPT !.outcome = outcome])
        /\ log' = log \o (IF outcome = "ok"
                          THEN <<"info:add_update_completed">>
                          ELSE <<"error:add:" \o outcome>>)
    /\ Return
    /\ UNCHANGED <<HandlerFrame, caller, docs_to_add, num_batches, batch_i>>
\* batch.py:103-117: after the loop, the commit and the success message.
BatchCommit ==
    /\ pc = "batch_add"
    /\ batch_i >= num_batches
    /\ IF args.commit
       THEN \E outcome \in ClientOutcomes :
            /\ calls' = Append(calls, [Ev("client.commit") EXCEPT !.outcome = outcome])
            /\ log' = log \o (IF outcome = "ok"
                              THEN <<"info:add_update_completed">>
                              ELSE <<"error:add:" \o outcome>>)
       ELSE /\ calls' = calls
            /\ log' = Append(log, "info:add_update_completed")
    /\ Return
    /\ UNCHANGED <<HandlerFrame, caller, docs_to_add, num_batches, batch_i>>

\* The delete that looks at the query before the IDs.
BatchDeleteQueryFirst ==
    /\ pc = "batch_delete"
    /\ LET ids == parse_ids(args).ids
       IN  IF ids # <<>> \/ Truthy(args.query)
           THEN \E outcome \in ClientOutcomes :
                /\ calls' = Append(calls,
                      IF Truthy(args.query)
                      THEN [Ev("client.delete") EXCEPT
                               !.q = args.query, !.commit = args.commit, !.outcome = outcome]
                      ELSE [Ev("client.delete") EXCEPT
                               !.docs = ids, !.commit = args.commit, !.outcome = outcome])
                /\ log' = log \o (IF outcome = "ok"
                                  THEN <<"info:delete_completed">>
                                  ELSE <<"error:delete:" \o outcome>>)
           ELSE /\ calls' = calls
                /\ log' = Append(log, "error:delete_needs_selector")
    /\ Return
    /\ UNCHANGED <<HandlerFrame, caller, docs_to_add, num_batches, batch_i>>
\* batch.py:120-148: delete by IDs, else by query, else an error.
BatchDelete ==
    /\ pc = "batch_delete"
    /\ LET ids == parse_ids(args).ids
       IN  IF ids # <<>> \/ Truthy(args.query)
           THEN \E outcome \in ClientOutcomes :
                /\ calls' = Append(calls,
                      IF ids # <<>>
                      THEN [Ev("client.delete") EXCEPT
                               !.docs = ids, !.commit = args.commit, !.outcome = outcome]
                      ELSE [Ev("client.delete") EXCEPT
                               !.q = args.query, !.commit = args.commit, !.outcome = outcome])
                /\ log' = log \o (IF outcome = "ok"
                                  THEN <<"info:delete_completed">>
                                  ELSE <<"error:delete:" \o outcome>>)
           ELSE /\ calls' = calls
                /\ log' = Append(log, "error:delete_needs_selector")
    /\ Return
    /\ UNCHANGED <<HandlerFrame, caller, docs_to_add, num_batches, batch_i>>

\* -------------------------------------------------------------------- get
\* get.py:49: ':' and ' ' in an ID are escaped with a backslash.
EscapeId(id) == CASE id = "i:2" -> "i\\:2" [] OTHER -> id

\* ' OR '.join(ids) for a non-empty list (get.py:50)
RECURSIVE JoinOr(_)
JoinOr(ids) ==
    IF Len(ids) = 1 THEN ids[1] ELSE ids[1] \o " OR " \o JoinOr(Tail(ids))

\* The query that looks at --query before the IDs.
GetQueryQueryFirst(ids, query) ==
    IF Truthy(query) THEN query
    ELSE IF ids # <<>>
    THEN "id:(" \o JoinOr([k \in 1..Len(ids) |-> EscapeId(ids[k])]) \o ")"
    ELSE "*:*"

\* get.py:44-54: the query searched for.
GetQuery(ids, query) ==
    IF ids # <<>>
    THEN "id:(" \o JoinOr([k \in 1..Len(ids) |-> EscapeId(ids[k])]) \o ")"
    ELSE IF Truthy(query) THEN query
    ELSE "*:*"

\* get.py:57-62: the keyword arguments of the search besides q.
SearchParams(a) ==
    IF Truthy(a.sort)
    THEN [fl |-> a.fields, rows |-> a.limit, sort |-> a.sort]
    ELSE [fl |-> a.fields, rows |-> a.limit]

\* The client.search call: an event with the keyword arguments as well.
SearchCall(q, params, outcome) ==
    [op |-> "client.search", by |-> "main", timeout |-> NoInt, docs |-> <<>>,
     q |-> q, commit |-> FALSE, outcome |-> outcome, url |-> None,
     params |-> params]

\* What results.docs of a successful search holds (get.py:71-76).
SearchResults == {<<>>, <<"d1", "d2">>}

\* get.py:31-85: parse the IDs, build the query, search.  A successful
\* search is recorded with the documents it returned.
GetSearch ==
    /\ pc = "get_documents"
    /\ LET ids == parse_ids(args)
       IN  IF ~ids.ok
           THEN /\ log' = log \o <<"error:id_file", "error:parse_ids">>
                /\ calls' = calls
                /\ Return
           ELSE \E outcome \in ClientOutcomes, found \in SearchResults :
                /\ calls' = Append(calls,
                      [SearchCall(GetQuery(ids.ids, args.query), SearchParams(args),
                                  outcome)
                         EXCEPT !.docs = IF outcome = "ok" THEN found ELSE <<>>])
                /\ IF outcome = "ok"
                   THEN pc' = "get_output" /\ UNCHANGED <<log, exit_code>>
                   ELSE log' = Append(log, "error:search:" \o outcome) /\ Return
    /\ UNCHANGED <<HandlerFrame, caller, docs_to_add, num_batches, batch_i>>

\* How open(), the writing and close() of the output can end.
OpenOutcomes == {"ok", "IOError"}
WriteFileOutcomes == {"ok", "IOError", "Exception"}
CloseOutcomes == {"ok", "raised"}

\* A call on the output handle, "sys.stdout" or the path of the file.
FileCall(op, handle, docs, outcome) ==
    [Ev(op) EXCEPT !.by = "get_documents", !.q = handle, !.docs = docs,
                   !.outcome = outcome]

\* What is written (get.py:99-117): the documents as JSON, the documents as
\* CSV rows, a newline to a CSV file without documents, nothing to standard
\* output for CSV without documents.
OutputWrites(a, docs, handle, outcome) ==
    IF a.format = "csv" /\ docs = <<>>
    THEN IF Truthy(a.output) THEN <<FileCall("write", handle, <<"newline">>, outcome)>>
         ELSE <<>>
    ELSE <<FileCall("write", handle, docs, outcome)>>

\* An output section whose finally clause closes whatever handle it has.
OutputTraceCloseAny(a, docs, open_out, write_out, close_out) ==
    LET handle == IF Truthy(a.output) THEN a.output ELSE "sys.stdout"
    IN  IF Truthy(a.output) /\ open_out # "ok"
        THEN <<FileCall("open", handle, <<>>, open_out)>>
        ELSE (IF Truthy(a.output) THEN <<FileCall("open", handle, <<>>, "ok")>> ELSE <<>>)
             \o OutputWrites(a, docs, handle, write_out)
             \o <<FileCall("close", handle, <<>>, close_out)>>

\* get.py:92-131: the calls of the output section.  The handle is the file
\* opened for args.output, or sys.stdout; an open() that raises leaves the
\* handle None.  The finally clause closes the handle when it is a file.
OutputTrace(a, docs, open_out, write_out, close_out) ==
    LET handle == IF Truthy(a.output) THEN a.output ELSE "sys.stdout"
    IN  IF Truthy(a.output) /\ open_out # "ok"
        THEN <<FileCall("open", handle, <<>>, open_out)>>
        ELSE (IF Truthy(a.output) THEN <<FileCall("open", handle, <<>>, "ok")>> ELSE <<>>)
             \o OutputWrites(a, docs, handle, write_out)
             \o (IF Truthy(a.output) THEN <<FileCall("close", handle, <<>>, close_out)>>
                 ELSE <<>>)

\* get.py:87-131: format and write the result; every failure is logged and
\* the function returns normally.
GetOutput ==
    /\ pc = "get_output"
    /\ \E open_out \in OpenOutcomes, write_out \in WriteFileOutcomes,
          close_out \in CloseOutcomes :
        LET docs == calls[Len(calls)].docs
            trace == OutputTrace(args, docs, open_out, write_out, close_out)
            Failed(op) == \E i \in 1..Len(trace) :
                              trace[i].op = op /\ trace[i].outcome # "ok"
            wrote == \E i \in 1..Len(trace) : trace[i].op = "write"
        IN  /\ calls' = calls \o trace
            /\ log' = log
                  \o ErrorIf(Failed("open"), "error:output:" \o open_out)
                  \o ErrorIf(~Failed("open") /\ args.format = "csv" /\ docs = <<>>,
                             "warning:no_documents_csv")
                  \o ErrorIf(Failed("write"), "error:output:" \o write_out)
                  \o ErrorIf(Truthy(args.output) /\ ~Failed("open") /\ ~Failed("write"),
                             "info:wrote_output")
                  \o ErrorIf(Failed("close"), "error:close")
    /\ Return
    /\ UNCHANGED <<HandlerFrame, caller, docs_to_add, num_batches, batch_i>>

\* ---------------------------------------------------------- specification
Next ==
    \/ ShowConfigInfo
    \/ LoadConfig
    \/ InitClient
    \/ Dispatch
    \/ CreateCheck
    \/ DeleteCollection
    \/ CreateRequest
    \/ ListCollections
    \/ CollectionInfo
    \/ BatchParse
    \/ BatchAdd
    \/ BatchCommit
    \/ BatchDelete
    \/ GetSearch
    \/ GetOutput

Spec == Init /\ [][Next]_vars

\* ------------------------------------------------------------ properties
Ops == [i \in 1..Len(calls) |-> calls[i].op]
Called(op) == \E i \in 1..Len(calls) : calls[i].op = op
IsPrefix(s, t) == Len(s) <= Len(t) /\ s = SubSeq(t, 1, Len(s))
Finished == pc = "done"

RECURSIVE ConcatDocs(_)
ConcatDocs(evs) ==
    IF evs = <<>> THEN <<>> ELSE Head(evs).docs \o ConcatDocs(Tail(evs))

IsAdd(e) == e.op = "client.add"
Adds == SelectSeq(calls, IsAdd)

\* The log records of a handler's caught network error or of malformed
\* user input.
NetworkErrors ==
    {"error:" \o a \o ":" \o o :
        a \in {"DELETE", "CREATE", "LIST", "CLUSTERSTATUS"},
        o \in {"timeout", "connection_error", "http_error", "error_body"}}
    \cup {"error:" \o a \o ":SolrError" : a \in {"add", "delete", "search"}}
InputErrors == {"error:doc_json", "error:id_file", "error:delete_needs_selector"}
Logged(entries) == \E i \in 1..Len(log) : log[i] \in entries

\* C1: whenever a command handler hits a network-client error or malformed
\* user input, the error is logged and the process ends with a nonzero exit
\* status.  (The handlers log and return; main then ends with status 0.)
C1_HandlerErrorExitsNonzero ==
    (Finished /\ Logged(NetworkErrors \cup InputErrors)) => exit_code # Some(0)

\* The batch add/update runs in which no client.add failed and the loop ended.
AddLoopCompleted ==
    /\ Finished
    /\ args.command = "batch" /\ args.add_update
    /\ docs_to_add # <<>>
    /\ \A i \in 1..Len(Adds) : Adds[i].outcome = "ok"

\* C2: for n >= 1 parsed documents and a batch size b >= 1, an add/update
\* in which no request fails makes exactly ceil(n/b) client.add calls, each
\* with at most b documents and every one but the last with exactly b, and
\* the batches concatenated in call order are the parsed list.
C2_ChunksPartitionDocs ==
    (AddLoopCompleted /\ args.batch_size >= 1) =>
        LET n == IF args.doc.kind = "dict" THEN 1 ELSE args.doc.n
            b == args.batch_size
            k == Len(Adds)
        IN  /\ n >= 1
            /\ (k - 1) * b < n /\ n <= k * b
            /\ \A i \in 1..k : Len(Adds[i].docs) <= b
            /\ \A i \in 1..(k - 1) : Len(Adds[i].docs) = b
            /\ ConcatDocs(Adds) = [j \in 1..n |-> j]

C2_Witness ==
    /\ AddLoopCompleted
    /\ args.batch_size = 2
    /\ Len(docs_to_add) = 3
    /\ Len(Adds) = 2
    /\ Len(Adds[2].docs) = 1

\* C3: if client.add fails on some batch, the operation is aborted: no later
\* batch is passed to client.add, client.commit is never called and the
\* success message is not logged.
C3_FailedAddAborts ==
    \A i \in 1..Len(calls) :
        (calls[i].op = "client.add" /\ calls[i].outcome # "ok") =>
            /\ \A j \in (i + 1)..Len(calls) :
                   calls[j].op \notin {"client.add", "client.commit"}
            /\ ~Logged({"info:add_update_completed"})
            /\ Finished

C3_Witness ==
    /\ Finished
    /\ num_batches = 3
    /\ Len(Adds) = 2
    /\ Adds[1].outcome = "ok"
    /\ Adds[2].outcome = "SolrError"
    /\ args.commit

\* C4: in create_collection with overwrite set and the collection existing,
\* a failed DELETE request aborts the command: no CREATE request is sent
\* after it.  (delete_collection logs the failure and returns normally, and
\* create_collection goes on.)
C4_NoCreateAfterFailedDelete ==
    \A i \in 1..Len(calls) :
        (calls[i].op = "DELETE" /\ calls[i].outcome # "ok") =>
            \A j \in (i + 1)..Len(calls) : calls[j].op # "CREATE"

\* The command word's handler, as the claim lists them.
MatchingHandler ==
    CASE args.command = "create" -> "create_collection"
      [] args.command = "delete" -> "delete_collection"
      [] args.command = "list" -> "list_collections"
      [] args.command = "info" -> "collection_info"
      [] args.command = "batch" -> "batch_operations"
      [] args.command = "get" -> "get_documents"
      [] OTHER -> None

MainSteps ==
    {"load_and_override_config", "initialize_solr_client", "create_collection",
     "delete_collection", "list_collections", "collection_info",
     "batch_operations", "get_documents"}
IsMainStep(e) == e.op \in MainSteps
IsStepOfMain(e) == e.op \in MainSteps /\ e.by = "main"
ExpectedSteps ==
    <<"load_and_override_config", "initialize_solr_client", MatchingHandler>>
OpsOf(evs) == [i \in 1..Len(evs) |-> evs[i].op]

\* C5: for a command other than config the steps of main are
\* load_and_override_config, then initialize_solr_client (once), then the
\* handler, in that order; main invokes at most one handler, the one that
\* matches the command word.  The only other handler call of a run is the
\* delete_collection that create_collection makes itself (overwrite), after
\* main has dispatched to create_collection.
C5_MainDispatchesOneHandler ==
    args.command # "config" =>
        /\ IsPrefix(OpsOf(SelectSeq(calls, IsStepOfMain)), ExpectedSteps)
        /\ \A i \in 1..Len(calls) :
               (IsMainStep(calls[i]) /\ calls[i].by # "main") =>
                   /\ calls[i].op = "delete_collection"
                   /\ args.command = "create"
                   /\ \E j \in 1..(i - 1) :
                          calls[j].op = "create_collection" /\ calls[j].by = "main"

C5_Witness ==
    /\ Finished
    /\ args.command = "info"
    /\ OpsOf(SelectSeq(calls, IsStepOfMain)) = ExpectedSteps
    /\ Called("CLUSTERSTATUS")

\* C6: main exits with status 1 whenever load_and_override_config returns no
\* configuration, initialize_solr_client returns no client, or an exception
\* reaches main's except clause; with no configuration no client is
\* initialized, and with no client no handler is invoked.
NoConfigReturned == Logged({"error:config_failed"})
NoClientReturned ==
    \E i \in 1..Len(calls) :
        calls[i].op = "initialize_solr_client" /\ calls[i].outcome = "none"
ExceptionReachedMain == Logged({"error:command_execution"})
HandlerInvoked == \E i \in 1..Len(calls) : calls[i].op \in Handlers

C6_FailuresExitOne ==
    /\ (NoConfigReturned \/ NoClientReturned \/ ExceptionReachedMain) =>
           (Finished /\ exit_code = Some(1))
    /\ NoConfigReturned => ~Called("initialize_solr_client")
    /\ NoClientReturned => ~HandlerInvoked

C6_Witness ==
    /\ ExceptionReachedMain
    /\ Called("batch_operations")
    /\ exit_code = Some(1)

\* No collection name comes from --collection or from the profile that
\* load_config reads.
NoCollectionGiven ==
    /\ Falsy(args.collection)
    /\ load_config(file, args.profile).status = "ok"
    /\ Falsy(load_config(file, args.profile).config.collection)

\* C7: for create, delete, info, get and batch, if no collection name is
\* resolved from --collection or the loaded configuration, main exits with
\* status 1 before initialize_solr_client is called and before any handler.
C7_MissingCollectionExitsOne ==
    (args.command \in {"create", "delete", "info", "get", "batch"}
        /\ NoCollectionGiven) =>
        /\ ~Called("initialize_solr_client")
        /\ ~HandlerInvoked
        /\ pc # "main" => (Finished /\ exit_code = Some(1))

C7_Witness ==
    /\ args.command = "delete"
    /\ NoCollectionGiven
    /\ Truthy(load_config(file, args.profile).config.solr_url)
    /\ Finished
    /\ exit_code = Some(1)

\* C8: the list command needs no collection name: with a profile that
\* supplies solr_url and no collection in the arguments or the profile, main
\* loads the configuration and reaches list_collections.
\* (load_and_override_config requires the collection key for every command.)
C8_ListNeedsNoCollection ==
    (args.command = "list" /\ NoCollectionGiven
        /\ Truthy(load_config(file, args.profile).config.solr_url)
        /\ Falsy(load_config(file, args.profile).config.zk_hosts)
        /\ pc # "main") =>
        /\ ~NoConfigReturned
        /\ exit_code # Some(1) \/ NoClientReturned

\* C9: for the config command main invokes show_config_info exactly once and
\* does not go on to load_and_override_config, a client or a handler, whether
\* show_config_info ends the process or returns.
C9_ConfigCommandStops ==
    args.command = "config" =>
        /\ IsPrefix(Ops, <<"show_config_info">>)
        /\ pc # "main" => Called("show_config_info")

IsTimed(e) ==
    e.op \in {"initialize_solr_client", "LIST", "DELETE", "CLUSTERSTATUS"}

\* C10: a --timeout on the command line overrides the profile: the timeout
\* of the Solr client and of the admin requests is the command-line value
\* when one is given, else the profile's, else 30.  (The CREATE request,
\* sent with twice the configured timeout, is left out of the comparison.)
C10_TimeoutOverride ==
    LET profile_timeout == load_config(file, args.profile).config.timeout
        expected == IF args.timeout # NoInt THEN args.timeout
                    ELSE IF profile_timeout # NoInt THEN profile_timeout
                    ELSE Some(30)
    IN  \A i \in 1..Len(calls) : IsTimed(calls[i]) => calls[i].timeout = expected

\* The position of the LIST request with which create_collection checked
\* for the collection, 0 when there is none.
IsExistenceCheck(e) == e.op = "LIST" /\ e.q \in ListAnswers
CheckAt ==
    IF \E i \in 1..Len(calls) : IsExistenceCheck(calls[i])
    THEN CHOOSE i \in 1..Len(calls) : IsExistenceCheck(calls[i])
    ELSE 0
ReportedExisting == CheckAt > 0 /\ calls[CheckAt].q = "named"
AfterCheck == SubSeq(calls, CheckAt + 1, Len(calls))
CountOp(op) == Cardinality({i \in 1..Len(calls) : calls[i].op = op})

\* C12: when the existence check reports the collection and overwrite is
\* false, create_collection sends neither a DELETE nor a CREATE request: it
\* warns and returns, and nothing is asked of the server after the check.
C12_ExistingNotOverwritten ==
    (args.command = "create" /\ ~args.overwrite /\ ReportedExisting) =>
        /\ ~Called("DELETE") /\ ~Called("CREATE") /\ ~Called("delete_collection")
        /\ AfterCheck = <<>>
        /\ Logged({"warning:already_exists"})
        /\ Finished /\ exit_code = Some(0)

C12_Witness ==
    /\ args.command = "create" /\ ~args.overwrite /\ ReportedExisting
    /\ Finished
    /\ CountOp("LIST") = 1

\* C13: when the collection is reported existing and overwrite is true,
\* create_collection calls delete_collection once, then waits, and only then
\* sends one CREATE request: after the check the calls are, in this order,
\* delete_collection, its DELETE request, the wait, the CREATE request.
C13_DeleteThenWaitThenCreate ==
    (args.command = "create" /\ args.overwrite /\ ReportedExisting) =>
        /\ IsPrefix(OpsOf(AfterCheck), <<"delete_collection", "DELETE", "sleep", "CREATE">>)
        /\ Len(AfterCheck) >= 1
        /\ Finished => Len(AfterCheck) = 4
        /\ \A i \in 1..Len(AfterCheck) :
               AfterCheck[i].op = "delete_collection" => AfterCheck[i].by = "create_collection"

C13_Witness ==
    /\ args.command = "create" /\ args.overwrite /\ ReportedExisting
    /\ Finished
    /\ CountOp("delete_collection") = 1 /\ CountOp("DELETE") = 1
    /\ CountOp("sleep") = 1 /\ CountOp("CREATE") = 1
    /\ calls[Len(calls)].op = "CREATE"

\* The batch add/update runs that reached the loop of batch.py:97: the
\* documents were parsed and the batches counted.
InBatchAdd == args.command = "batch" /\ args.add_update /\ docs_to_add # <<>>
IsCommit(e) == e.op = "client.commit"
AllAddsOk == \A i \in 1..Len(Adds) : Adds[i].outcome = "ok"

\* C14 as stated: in a batch add/update every batch is sent with commit
\* disabled; with the commit option on exactly one client.commit is issued,
\* after the last client.add; with --no-commit client.commit is never
\* called.  (A failed client.add ends the run with no commit at all.)
C14_CommitOnceWhenOn ==
    InBatchAdd =>
        /\ \A i \in 1..Len(Adds) : ~Adds[i].commit
        /\ (Finished /\ args.commit) =>
               /\ CountOp("client.commit") = 1
               /\ IsCommit(calls[Len(calls)])
        /\ ~args.commit => ~Called("client.commit")

\* C14: in a batch add/update every batch is sent with commit disabled; with
\* the commit option on and every client.add succeeded, exactly one
\* client.commit is issued, after the last client.add; it is never issued
\* after a failed client.add, and never with --no-commit.
C14_CommitOnceAfterAdds ==
    InBatchAdd =>
        /\ \A i \in 1..Len(Adds) : ~Adds[i].commit
        /\ CountOp("client.commit") <= 1
        /\ \A i \in 1..Len(calls) :
               IsCommit(calls[i]) => i = Len(calls) /\ AllAddsOk /\ Finished
        /\ (Finished /\ args.commit /\ AllAddsOk) =>
               /\ CountOp("client.commit") = 1
               /\ IsCommit(calls[Len(calls)])
        /\ (Finished /\ ~AllAddsOk) => ~Called("client.commit")
        /\ ~args.commit => ~Called("client.commit")

C14_Witness ==
    /\ InBatchAdd /\ Finished /\ args.commit
    /\ Len(Adds) = 2 /\ AllAddsOk
    /\ CountOp("client.commit") = 1
    /\ IsCommit(calls[Len(calls)])

\* The IDs the command line names: the non-blank lines of the ID file when
\* one is given, else the non-blank pieces of --ids.
NamedIds ==
    IF args.id_file = "ids.txt" THEN <<"f1", "f2">>
    ELSE IF Falsy(args.id_file) /\ args.ids # <<>> THEN <<"i1", "i:2">>
    ELSE <<>>
IsClientCall(e) == e.op \in {"client.add", "client.delete", "client.commit", "client.search"}
ClientCalls == SelectSeq(calls, IsClientCall)
NewCalls == SubSeq(calls', Len(calls) + 1, Len(calls'))

\* C15: the delete block of a batch delete makes exactly one
\* client.delete(id=ids, commit=commit) and no delete by query when the
\* parsed ID list is non-empty, even if a query is present; otherwise exactly
\* one client.delete(q=query, commit=commit) when a query is present;
\* otherwise it calls no client method and logs an error.  No other step of
\* the run calls a client method.
C15_DeleteByIdsElseQuery ==
    /\ []((args.command = "batch" /\ ~args.add_update /\ pc # "done") =>
             ClientCalls = <<>>)
    /\ [][pc = "batch_delete" =>
            /\ args.delete_docs /\ ~args.add_update
            /\ pc' = "done"
            /\ IF NamedIds # <<>>
               THEN /\ Len(NewCalls) = 1
                    /\ NewCalls[1].op = "client.delete"
                    /\ NewCalls[1].docs = NamedIds
                    /\ NewCalls[1].q = None
                    /\ NewCalls[1].commit = args.commit
               ELSE IF Truthy(args.query)
               THEN /\ Len(NewCalls) = 1
                    /\ NewCalls[1].op = "client.delete"
                    /\ NewCalls[1].docs = <<>>
                    /\ NewCalls[1].q = args.query
                    /\ NewCalls[1].commit = args.commit
               ELSE /\ NewCalls = <<>>
                    /\ log' = Append(log, "error:delete_needs_selector")]_vars

C15_Witness ==
    /\ Finished /\ args.delete_docs
    /\ args.id_file = "ids.txt" /\ Truthy(args.query) /\ ~args.commit
    /\ Len(ClientCalls) = 1
    /\ ClientCalls[1].op = "client.delete"
    /\ ClientCalls[1].docs = <<"f1", "f2">>
    /\ ClientCalls[1].q = None

\* A --doc that is given and is not a JSON object or a list of objects.
DocParseFails == args.doc.kind \notin {"none", "dict", "list"}
IdParseFails == args.id_file = "gone.txt"
NoOperation == ~args.add_update /\ ~args.delete_docs
IsBatchCall(e) == e.op \in {"client.add", "client.delete", "client.commit"}
BatchCalls == SelectSeq(calls, IsBatchCall)

\* C16: batch_operations makes no client.add, client.delete or client.commit
\* call when ID parsing fails, when --doc parsing fails, or when neither
\* --add-update nor --delete-docs is set; and it never calls both client.add
\* and client.delete.  (Under --delete-docs a --doc that does not parse is
\* logged as an error and the delete goes ahead.)
C16_NoCallOnBadInput ==
    args.command = "batch" =>
        /\ (IdParseFails \/ DocParseFails \/ NoOperation) => BatchCalls = <<>>
        /\ ~(Called("client.add") /\ Called("client.delete"))

\* What the handler does guarantee: no call when ID parsing fails, when
\* --doc parsing fails under --add-update, or when no operation is set, and
\* never both client.add and client.delete.
NoCallOnBadAddInput ==
    args.command = "batch" =>
        /\ (IdParseFails \/ (args.add_update /\ DocParseFails) \/ NoOperation) =>
               BatchCalls = <<>>
        /\ ~(Called("client.add") /\ Called("client.delete"))

\* The run that breaks C16: a delete made after the --doc error was logged.
DeleteAfterDocError ==
    /\ Finished /\ args.delete_docs /\ DocParseFails
    /\ Logged({"error:doc_json"})
    /\ Called("client.delete")

\* The query get_documents is to search for, by the priority of C17.
QueryByPriority ==
    IF args.id_file = "ids.txt" THEN "id:(f1 OR f2)"
    ELSE IF Falsy(args.id_file) /\ args.ids # <<>> THEN "id:(i1 OR i\\:2)"
    ELSE IF Truthy(args.query) THEN args.query
    ELSE "*:*"
IsSearchByPriority(e) ==
    /\ e.op = "client.search"
    /\ e.q = QueryByPriority
    /\ e.params.fl = args.fields
    /\ e.params.rows = args.limit
    /\ IF args.sort \in {None, ""}
       THEN DOMAIN e.params = {"fl", "rows"}
       ELSE DOMAIN e.params = {"fl", "rows", "sort"} /\ e.params.sort = args.sort

\* C17 as stated: get_documents issues exactly one search whose query is
\* chosen by priority (a non-empty ID list, from the ID file when one is
\* given and else from the comma-separated list, gives an OR query over the
\* id field; else the explicit query; else *:*), with the requested field
\* list and row limit and a sort only when one was given.  (With an ID file
\* that cannot be read it returns before the search.)
C17_OneSearchByPriority ==
    [][pc = "get_documents" =>
          /\ Len(NewCalls) = 1
          /\ IsSearchByPriority(NewCalls[1])]_vars

\* C17: unless the ID file cannot be read, get_documents issues exactly one
\* search whose query is chosen by priority (a non-empty ID list, from the
\* ID file when one is given and else from the comma-separated list, gives
\* an OR query over the id field; else the explicit query; else *:*), with
\* the requested field list and row limit and a sort only when one was
\* given; with an unreadable ID file it logs the error and makes no search.
C17_OneSearchUnlessIdFileFails ==
    /\ []((args.command = "get" /\ pc \notin {"done", "get_output"}) =>
             ClientCalls = <<>>)
    /\ [][pc = "get_documents" =>
            IF IdParseFails
            THEN /\ NewCalls = <<>>
                 /\ pc' = "done"
                 /\ log' = log \o <<"error:id_file", "error:parse_ids">>
            ELSE /\ Len(NewCalls) = 1
                 /\ IsSearchByPriority(NewCalls[1])]_vars
    /\ [][pc = "get_output" => ClientCalls' = ClientCalls]_vars

C17_Witness ==
    /\ Finished /\ args.command = "get"
    /\ args.id_file = "blank.txt" /\ args.ids # <<>> /\ Truthy(args.query)
    /\ Truthy(args.sort)
    /\ Len(ClientCalls) = 1
    /\ ClientCalls[1].op = "client.search"
    /\ ClientCalls[1].q = args.query
    /\ ClientCalls[1].params = [fl |-> "id,name", rows |-> 2, sort |-> "id asc"]

\* ------------------------------------------------------ configuration API
\* The functions of config.py and load_and_override_config called one after
\* another on one configuration file.  Here calls and log hold the trace and
\* the log records of the latest call only; a call that ends the process
\* (load_config on a missing file) is the last one.

\* How writing the file can end (config.py:222-229): written, open() refused
\* (the file is as it was), or the dump failed after open() truncated it.
WriteOutcomes == {"written", "refused", "truncated"}
UpdateResult(f, ok) == [file |-> f, ok |-> ok]

\* An update that writes a connection mapping holding the one key only.
update_config_replace(f, profile, key, value, how, write) ==
    LET created == create_default_config(f, how)
        g == created.file
        profiles == IF g.kind = "dict" THEN g.profiles ELSE <<>>
        old == IF profile \in DOMAIN profiles /\ profiles[profile].kind # "notdict"
               THEN profiles[profile]
               ELSE Profile("noconn", EmptyConn, None)
        new == Profile("ok", [EmptyConn EXCEPT ![key] = value], old.other)
        written == FileOf([p \in DOMAIN profiles \cup {profile} |->
                              IF p = profile THEN new ELSE profiles[p]])
    IN  IF ~created.ok THEN UpdateResult(f, FALSE)
        ELSE IF g.kind \in {"unparseable", "notdict"} THEN UpdateResult(g, FALSE)
        ELSE IF write = "written" THEN UpdateResult(written, TRUE)
        ELSE IF write = "truncated" THEN UpdateResult(BrokenFile("empty"), FALSE)
        ELSE UpdateResult(g, FALSE)

\* config.py:187-229 update_config; how is what creating a missing file
\* gives, write how the final write ends.  An empty file loads as {}.
update_config(f, profile, key, value, how, write) ==
    LET created == create_default_config(f, how)
        g == created.file
        profiles == IF g.kind = "dict" THEN g.profiles ELSE <<>>
        old == IF profile \in DOMAIN profiles /\ profiles[profile].kind # "notdict"
               THEN profiles[profile]
               ELSE Profile("noconn", EmptyConn, None)
        conn == IF old.kind = "ok" THEN old.connection ELSE EmptyConn
        new == Profile("ok", [conn EXCEPT ![key] = value], old.other)
        written == FileOf([p \in DOMAIN profiles \cup {profile} |->
                              IF p = profile THEN new ELSE profiles[p]])
    IN  IF ~created.ok THEN UpdateResult(f, FALSE)
        ELSE IF g.kind \in {"unparseable", "notdict"} THEN UpdateResult(g, FALSE)
        ELSE IF write = "written" THEN UpdateResult(written, TRUE)
        ELSE IF write = "truncated" THEN UpdateResult(BrokenFile("empty"), FALSE)
        ELSE UpdateResult(g, FALSE)

\* The connection mappings of the files tried.
ConnDefault == Conn("http://p/", None, "profcol", "profusr", "profpw", Some(7))
ConnProd == Conn(None, "zk1:2181", "prodcol", None, None, NoInt)

ApiFiles ==
    {MissingFile, BrokenFile("unparseable"), BrokenFile("notdict"), BrokenFile("empty"),
     FileOf(<<>>),
     FileOf([p \in {"default", "prod"} |->
                IF p = "default" THEN Profile("ok", ConnDefault, "notes")
                ELSE ProfileOk(ConnProd)]),
     FileOf([p \in {"default", "prod"} |->
                IF p = "default" THEN Profile("notdict", EmptyConn, None)
                ELSE Profile("ok", ConnDefault, None)]),
     FileOf([p \in {"default", "prod"} |->
                IF p = "default" THEN Profile("noconn", EmptyConn, "notes")
                ELSE Profile("badconn", EmptyConn, "notes")]),
     FileOf([p \in {"prod"} |-> ProfileOk(ConnProd)]),
     FileOf([p \in {"default"} |-> ProfileOk(EmptyConn)])}

\* The profile names load_config is called with (None: no profile named).
LoadProfiles == {None, "", "default", "prod", "staging"}
UpdateProfiles == {"default", "staging"}
\* The settings update_config is called with.
KeyValues ==
    {[key |-> "collection", value |-> "newcol"],
     [key |-> "timeout", value |-> Some(9)]}
\* The command lines load_and_override_config is called with.
OverrideArgs ==
    {[Args("list", c, NoInt, u) EXCEPT
         !.profile = p, !.zk_hosts = z, !.username = us, !.password = pw] :
        p \in {None, "prod"}, c \in {None, "argcol"}, u \in {None, "", "http://a/"},
        z \in {None, "zkarg:2181"}, us \in {None, "argusr"}, pw \in {None, "", "argpw"}}

\* One call of the API: the function, its caller, its arguments, the file
\* before and after it, and what it returned.
ApiCall(op, by, in, before, after, out) ==
    [op |-> op, by |-> by, in |-> in, before |-> before, after |-> after, out |-> out]

\* What the actions of the API leave alone.
ApiFrame == <<args, kazoo_imported, collection_name, solr_client, caller,
              docs_to_add, num_batches, batch_i>>

\* The trace of load_config(profile) called by `by` on the file, and of the
\* create_default_config it calls when the file is missing.
LoadTrace(by, profile, how) ==
    LET r == load_config(file, profile)
        created == create_default_config(file, how)
    IN  IF r.status = "exit"
        THEN <<ApiCall("load_config", by, [profile |-> profile], file, created.file, r),
               ApiCall("create_default_config", "load_config", [how |-> how],
                       file, created.file, created.ok)>>
        ELSE <<ApiCall("load_config", by, [profile |-> profile], file, file, r)>>

\* A load_config that goes on with the file it has just created.
LoadConfigCallReturns ==
    /\ pc = "config_api"
    /\ \E profile \in LoadProfiles, how \in CreateOutcomes :
        LET created == create_default_config(file, how)
            r == load_config(created.file, profile)
        IN  /\ calls' = LoadTrace("caller", profile, how)
            /\ file' = created.file
            /\ IF r.status = "exit"
               THEN /\ log' = <<"print:create_failed">>
                    /\ Exit(1)
                    /\ config' = config
               ELSE /\ log' = ErrorIf(r.status = "none", "error:load_config")
                    /\ config' = r.config
                    /\ UNCHANGED <<pc, exit_code>>
    /\ UNCHANGED ApiFrame

\* config.py:107-166 load_config(profile), called on the file as it is.  On
\* a missing file it calls create_default_config and ends the process.
LoadConfigCall ==
    /\ pc = "config_api"
    /\ \E profile \in LoadProfiles, how \in CreateOutcomes :
        LET r == load_config(file, profile)
            created == create_default_config(file, how)
        IN  /\ calls' = LoadTrace("caller", profile, how)
            /\ IF r.status = "exit"
               THEN /\ file' = created.file
                    /\ log' = <<IF created.ok THEN "print:created" ELSE "print:create_failed">>
                    /\ Exit(1)
                    /\ config' = config
               ELSE /\ file' = file
                    /\ log' = ErrorIf(r.status = "none", "error:load_config")
                    /\ config' = r.config
                    /\ UNCHANGED <<pc, exit_code>>
    /\ UNCHANGED ApiFrame

\* config.py:187-229 update_config(profile, key, value)
UpdateConfigCall ==
    /\ pc = "config_api"
    /\ \E profile \in UpdateProfiles, kv \in KeyValues,
          how \in CreateOutcomes, write \in WriteOutcomes :
        LET r == update_config(file, profile, kv.key, kv.value, how, write)
            created == create_default_config(file, how)
            input == [profile |-> profile, key |-> kv.key, value |-> kv.value]
        IN  /\ calls' = <<ApiCall("update_config", "caller", input, file, r.file, r.ok)>>
                        \o (IF file.exists THEN <<>>
                            ELSE <<ApiCall("create_default_config", "update_config",
                                           [how |-> how], file, created.file, created.ok)>>)
            /\ file' = r.file
            /\ log' = <<IF r.ok THEN "info:updated" ELSE "error:update_config">>
    /\ UNCHANGED <<pc, exit_code, config, ApiFrame>>

\* config.py:56-105 create_default_config()
CreateDefaultCall ==
    /\ pc = "config_api"
    /\ \E how \in CreateOutcomes :
        LET created == create_default_config(file, how)
        IN  /\ calls' = <<ApiCall("create_default_config", "caller", [how |-> how],
                                  file, created.file, created.ok)>>
            /\ file' = created.file
            /\ log' = ErrorIf(~created.ok, "error:create_default_config")
    /\ UNCHANGED <<pc, exit_code, config, ApiFrame>>

InitConfig ==
    /\ args = Args("config", None, NoInt, None)
    /\ file \in ApiFiles
    /\ kazoo_imported \in BOOLEAN
    /\ pc = "config_api"
    /\ config = EmptyConn
    /\ collection_name = None
    /\ solr_client = NoClient
    /\ calls = <<>>
    /\ log = <<>>
    /\ exit_code = <<>>
    /\ caller = "main"
    /\ docs_to_add = <<>>
    /\ num_batches = 0
    /\ batch_i = 0

NextConfig ==
    \/ LoadConfigCall
    \/ UpdateConfigCall
    \/ CreateDefaultCall

SpecConfig == InitConfig /\ [][NextConfig]_vars

\* ------------------------------------------- load_and_override_config
\* utils.py:25-77 load_and_override_config(args) called once, on any of the
\* files, with any of the command lines.
LoadAndOverrideCall ==
    /\ pc = "override_api"
    /\ \E how \in CreateOutcomes :
        LET loaded == load_config(file, args.profile)
            r == load_and_override_config(args, loaded, kazoo_imported)
            created == create_default_config(file, how)
        IN  /\ calls' = <<ApiCall("load_and_override_config", "caller", [args |-> args],
                                  file, IF r.status = "exit" THEN created.file ELSE file, r)>>
                        \o LoadTrace("load_and_override_config", args.profile, how)
            /\ IF r.status = "exit"
               THEN /\ file' = created.file
                    /\ log' = <<IF created.ok THEN "print:created" ELSE "print:create_failed">>
                    /\ Exit(1)
                    /\ config' = config
               ELSE /\ file' = file
                    /\ log' = ErrorIf(r.status = "none", "error:config_failed")
                    /\ config' = r.config
                    /\ pc' = "returned"
                    /\ exit_code' = exit_code
    /\ UNCHANGED ApiFrame

InitOverride ==
    /\ args \in OverrideArgs
    /\ file \in ApiFiles
    /\ kazoo_imported \in BOOLEAN
    /\ pc = "override_api"
    /\ config = EmptyConn
    /\ collection_name = None
    /\ solr_client = NoClient
    /\ calls = <<>>
    /\ log = <<>>
    /\ exit_code = <<>>
    /\ caller = "main"
    /\ docs_to_add = <<>>
    /\ num_batches = 0
    /\ batch_i = 0

NextOverride == LoadAndOverrideCall

SpecOverride == InitOverride /\ [][NextOverride]_vars

\* ------------------------------------------- properties of the configuration
\* The profile a call names: the default one when none is named.
NamedProfile(profile) == IF profile \in {None, ""} THEN "default" ELSE profile
\* The profiles of a file; a file that is not a mapping has none.
ProfilesOf(f) == IF f.exists /\ f.kind = "dict" THEN f.profiles ELSE <<>>
HasConnection(f, name) ==
    name \in DOMAIN ProfilesOf(f) /\ ProfilesOf(f)[name].kind = "ok"
OverrideKeys == {"solr_url", "zk_hosts", "username", "password", "collection"}
ConnKeys == {"solr_url", "zk_hosts", "username", "password", "collection", "timeout"}

C18_LoadReturnsNamedProfile ==
    \A i \in 1..Len(calls) :
        (calls[i].op = "load_config" /\ calls[i].before.exists) =>
            LET f == calls[i].before
                name == NamedProfile(calls[i].in.profile)
            IN  /\ calls[i].after = f
                /\ file = f
                /\ config = calls[i].out.config
                /\ IF HasConnection(f, name)
                   THEN /\ calls[i].out.status = "ok"
                        /\ calls[i].out.config = f.profiles[name].connection
                   ELSE /\ calls[i].out.status = "none"
                        /\ calls[i].out.config = EmptyConn

C18_Witness ==
    /\ Len(calls) = 1 /\ calls[1].op = "load_config"
    /\ calls[1].in.profile = "prod"
    /\ HasConnection(file, "default") /\ HasConnection(file, "prod")
    /\ file.profiles["default"].connection # file.profiles["prod"].connection
    /\ calls[1].out.status = "ok"
    /\ config = file.profiles["prod"].connection

\* C19: on a missing file load_config calls create_default_config exactly
\* once and then ends the process with exit status 1, whether the creation
\* succeeded or failed; it returns no configuration.
C19_MissingFileCreatesAndExits ==
    \A i \in 1..Len(calls) :
        (calls[i].op = "load_config" /\ ~calls[i].before.exists) =>
            /\ Cardinality({j \in 1..Len(calls) :
                               /\ calls[j].op = "create_default_config"
                               /\ calls[j].by = "load_config"}) = 1
            /\ calls[i].out.status = "exit"
            /\ Finished /\ exit_code = Some(1)
            /\ config = EmptyConn

C19_Witness ==
    /\ Len(calls) = 2
    /\ calls[1].op = "load_config" /\ ~calls[1].before.exists
    /\ calls[2].op = "create_default_config" /\ calls[2].out
    /\ file = MinimalConfig
    /\ Finished /\ exit_code = Some(1)

C21_ExistingFileUntouched ==
    \A i \in 1..Len(calls) :
        (calls[i].op = "create_default_config" /\ calls[i].before.exists) =>
            /\ calls[i].after = calls[i].before
            /\ file = calls[i].before
            /\ calls[i].out

\* create_default_config called on a file that an earlier update_config
\* wrote (the profile staging is in no file the runs start from).
C21_Witness ==
    /\ Len(calls) = 1
    /\ calls[1].op = "create_default_config" /\ calls[1].by = "caller"
    /\ calls[1].before.exists
    /\ HasConnection(file, "staging")
    /\ file.profiles["staging"].connection.collection = "newcol"
    /\ file = calls[1].before


\* ------------------------------------------------- admin requests, discovery
AdminOps == {"LIST", "DELETE", "CLUSTERSTATUS", "CREATE"}
IsAdminRequest(e) == e.op \in AdminOps
AdminRequests == {i \in 1..Len(calls) : IsAdminRequest(calls[i])}

\* C22: delete_collection, list_collections and collection_info send at most
\* one HTTP request per invocation.  A request that fails (timeout,
\* connection error, HTTP error status, error body) is the last thing the
\* handler does: the failure is logged, the handler returns normally and no
\* second request follows.  A delete_collection called from
\* create_collection sends at most one DELETE as well.
C22_OneRequestNoRetry ==
    /\ CountOp("DELETE") <= 1
    /\ args.command \in {"delete", "list", "info"} =>
        /\ Cardinality(AdminRequests) <= 1
        /\ \A i \in AdminRequests :
            calls[i].outcome # "ok" =>
                /\ i = Len(calls)
                /\ Logged({"error:" \o calls[i].op \o ":" \o calls[i].outcome})
                /\ pc = "done" /\ exit_code = Some(0)

C22_Witness ==
    /\ args.command = "list"
    /\ pc = "done"
    /\ Cardinality(AdminRequests) = 1
    /\ calls[Len(calls)].op = "LIST"
    /\ calls[Len(calls)].outcome = "timeout"
    /\ Logged({"error:LIST:timeout"})


\* ------------------------------------------------ get_admin_base_url alone
\* get_admin_base_url(config) called once on a configuration mapping, with
\* the calls it makes to ZooKeeper and what it returns.

\* The mappings tried: solr_url and zk_hosts absent, empty or set, the URL
\* with and without trailing slashes.
DiscoveryConfigs ==
    {Conn(u, z, None, None, None, t) :
        u \in {None, "", "http://p", "http://p/", "http://p//"},
        z \in {None, "", "zk1:2181"},
        t \in {NoInt, Some(7)}}

\* utils.py:160-214: what get_admin_base_url logs.
get_admin_base_url_log(cfg, kazoo, disc) ==
    IF Truthy(cfg.solr_url) THEN <<>>
    ELSE IF Truthy(cfg.zk_hosts)
    THEN IF ~kazoo THEN <<"error:kazoo_missing", "error:install_kazoo">>
         ELSE <<"info:zk_discovery">> \o
              (IF disc.raises # "none" THEN <<"error:zk_discovery">>
               ELSE IF disc.live_nodes = <<>> THEN <<"error:no_live_nodes">>
               ELSE IF Len(SplitColon(disc.live_nodes[disc.pick])) # 2
               THEN <<"error:node_host_port">>
               ELSE IF NodeUrl(disc.live_nodes[disc.pick]) = None
               THEN <<"error:node_port_context">>
               ELSE <<"info:discovered">>)
    ELSE <<"error:cannot_determine_base_url">>

\* utils.py:149-215: one call of get_admin_base_url; the return is recorded
\* with the URL returned.
GetAdminBaseUrlCall ==
    /\ pc = "admin_url"
    /\ \E disc \in DiscoveryOutcomes :
        /\ calls' = DiscoveryTrace(config, kazoo_imported, disc)
                    \o <<[Ev("get_admin_base_url") EXCEPT !.by = "caller",
                            !.url = get_admin_base_url(config, kazoo_imported, disc)]>>
        /\ log' = get_admin_base_url_log(config, kazoo_imported, disc)
    /\ pc' = "returned"
    /\ UNCHANGED <<ApiFrame, file, config, exit_code>>

InitDiscovery ==
    /\ args = Args("list", None, NoInt, None)
    /\ file = MissingFile
    /\ kazoo_imported \in BOOLEAN
    /\ pc = "admin_url"
    /\ config \in DiscoveryConfigs
    /\ collection_name = None
    /\ solr_client = NoClient
    /\ calls = <<>>
    /\ log = <<>>
    /\ exit_code = <<>>
    /\ caller = "main"
    /\ docs_to_add = <<>>
    /\ num_batches = 0
    /\ batch_i = 0

NextDiscovery == GetAdminBaseUrlCall

SpecDiscovery == InitDiscovery /\ [][NextDiscovery]_vars

ZkCalls == {i \in 1..Len(calls) : calls[i].by = "get_admin_base_url"}
CountZk(op) == Cardinality({i \in ZkCalls : calls[i].op = op})
Returned == calls[Len(calls)]

\* C23: get_admin_base_url gives solr_url priority.  With solr_url
\* configured it returns that URL without its trailing slashes and makes no
\* call to ZooKeeper, zk_hosts configured or not.  It goes to ZooKeeper only
\* when solr_url is absent and zk_hosts is present, and then (kazoo being
\* installed) it does go.  With both absent it returns no URL.
C23_SolrUrlFirst ==
    pc = "returned" =>
        /\ Truthy(config.solr_url) =>
            /\ Returned.url = "http://p"
            /\ ZkCalls = {}
        /\ ZkCalls # {} => (Falsy(config.solr_url) /\ Truthy(config.zk_hosts))
        /\ (Falsy(config.solr_url) /\ Truthy(config.zk_hosts) /\ kazoo_imported) =>
            (\E i \in ZkCalls : calls[i].op = "KazooClient")
        /\ (Falsy(config.solr_url) /\ Falsy(config.zk_hosts)) =>
            (Returned.url = None /\ ZkCalls = {})

C23_Witness ==
    /\ pc = "returned"
    /\ config.solr_url = "http://p//"
    /\ config.zk_hosts = "zk1:2181"
    /\ kazoo_imported
    /\ Returned.op = "get_admin_base_url"
    /\ Returned.url = "http://p"
    /\ Len(calls) = 1

\* Whether the ZooKeeper client of the discovery was created: the
\* constructor was called and did not raise.
ClientCreated == \E i \in ZkCalls : calls[i].op = "KazooClient" /\ calls[i].outcome = "ok"

\* C24: every ZooKeeper client that get_admin_base_url creates is stopped
\* and then closed, once each, before the function returns: after a
\* successful discovery, with no live nodes, with a node name that does not
\* parse, and when zk.start() or zk.get_children() raises.  When no client
\* was created nothing is stopped or closed.
C24_ClientStoppedAndClosed ==
    pc = "returned" =>
        IF ClientCreated
        THEN /\ CountZk("KazooClient") = 1
             /\ CountZk("zk.stop") = 1 /\ CountZk("zk.close") = 1
             /\ calls[Len(calls) - 2].op = "zk.stop"
             /\ calls[Len(calls) - 1].op = "zk.close"
             /\ Returned.op = "get_admin_base_url"
        ELSE CountZk("zk.stop") = 0 /\ CountZk("zk.close") = 0

C24_Witness ==
    /\ pc = "returned"
    /\ ClientCreated
    /\ \E i \in ZkCalls : calls[i].op = "zk.get_children" /\ calls[i].outcome = "raised"
    /\ CountZk("zk.stop") = 1 /\ CountZk("zk.close") = 1
    /\ Returned.url = None


\* The base URL the node names of the model stand for; None for the names
\* that are not host:port_context.
ExpectedNodeUrl(name) ==
    CASE name = "h1:8983_solr" -> "http://h1:8983/solr"
      [] name = "h2:7574_search" -> "http://h2:7574/search"
      [] OTHER -> None

\* C25: in ZooKeeper discovery the node chosen is one of the live nodes.  A
\* name host:port_context gives the base URL http://host:port/context, which
\* the calling handler sends its request to; a name without exactly one
\* colon, or without exactly one underscore after the colon, gives no URL
\* and the calling handler sends no HTTP request (it logs that the base URL
\* is missing).
C25_ChosenNodeGivesUrl ==
    \A i \in 1..Len(calls) :
        calls[i].op = "random.choice" =>
            /\ calls[i].q \in Range(calls[i].docs)
            /\ IF ExpectedNodeUrl(calls[i].q) # None
               THEN \E j \in AdminRequests :
                        j > i /\ calls[j].url = ExpectedNodeUrl(calls[i].q)
               ELSE /\ AdminRequests = {}
                    /\ Logged({"error:no_base_url"})

C25_Witness ==
    /\ args.command = "info"
    /\ pc = "done"
    /\ \E i \in 1..Len(calls) :
        /\ calls[i].op = "random.choice"
        /\ calls[i].docs = <<"h1:8983_solr", "h2:7574_search">>
        /\ calls[i].q = "h2:7574_search"
    /\ calls[Len(calls)].op = "CLUSTERSTATUS"
    /\ calls[Len(calls)].url = "http://h2:7574/search"


\* ------------------------------------------------ the functions of create.py
\* _check_collection_exists and create_collection called directly on a
\* collection name and a configuration mapping, as the tests call them.
CreateConfigs ==
    {Conn(u, z, None, None, None, t) :
        u \in {None, "", "http://p", "http://p/"},
        z \in {None, "zk1:2181"},
        t \in {NoInt, Some(7)}}

\* create.py:25-42: one call of _check_collection_exists; the return is
\* recorded with the value returned ("True" or "False").
CheckCollectionExistsCall ==
    /\ pc = "check_api"
    /\ \E resp \in ListResponses :
        LET base_url == get_base_solr_url(config)
            exists == check_collection_exists(base_url, collection_name, resp)
            return == [Ev("_check_collection_exists") EXCEPT !.by = "caller",
                         !.outcome = IF exists THEN "True" ELSE "False"]
        IN  IF base_url = None
            THEN calls' = <<return>> /\ log' = log
            ELSE /\ calls' = <<ListCall(config, collection_name, resp), return>>
                 /\ log' = ErrorIf(resp.outcome # "ok", "warning:check_failed")
    /\ pc' = "returned"
    /\ UNCHANGED <<ApiFrame, file, config, exit_code>>

InitCreate ==
    /\ args \in {a \in CreateArgs : a.collection = None /\ a.timeout = NoInt /\ a.solr_url = None}
    /\ file = MissingFile
    /\ kazoo_imported = TRUE
    /\ pc \in {"check_api", "create_collection"}
    /\ config \in CreateConfigs
    /\ collection_name \in {"argcol", "profcol"}
    /\ solr_client = NoClient
    /\ calls = <<>>
    /\ log = <<>>
    /\ exit_code = <<>>
    /\ caller = "main"
    /\ docs_to_add = <<>>
    /\ num_batches = 0
    /\ batch_i = 0

NextCreate ==
    \/ CheckCollectionExistsCall
    \/ CreateCheck
    \/ DeleteCollection
    \/ CreateRequest

SpecCreate == InitCreate /\ [][NextCreate]_vars

ExistenceChecks == {i \in 1..Len(calls) : IsExistenceCheck(calls[i])}
CheckReturns == {i \in 1..Len(calls) : calls[i].op = "_check_collection_exists"}

FileCalls(op) == {i \in 1..Len(calls) : calls[i].by = "get_documents" /\ calls[i].op = op}
SearchSucceededBefore(i) ==
    \E j \in 1..(i - 1) : calls[j].op = "client.search" /\ calls[j].outcome = "ok"
OpenedFiles == {i \in FileCalls("open") : calls[i].outcome = "ok"}

\* C27: get_documents opens an output file only after a successful search:
\* after a failed ID parse or a failed search nothing is opened or written.
\* Every output file that was opened is closed exactly once before the
\* function returns, also when the writing failed, and nothing that was not
\* opened is closed: standard output never is.
C27_OutputOpenedLateClosedOnce ==
    /\ \A i \in FileCalls("open") \cup FileCalls("write") \cup FileCalls("close") :
        SearchSucceededBefore(i)
    /\ (args.command = "get" /\ Finished) =>
        /\ \A i \in OpenedFiles :
              Cardinality({j \in FileCalls("close") : j > i /\ calls[j].q = calls[i].q}) = 1
        /\ Cardinality(FileCalls("close")) = Cardinality(OpenedFiles)
    /\ \A j \in FileCalls("close") : calls[j].q # "sys.stdout"
    /\ \A j \in FileCalls("write") :
        calls[j].q = (IF Truthy(args.output) THEN args.output ELSE "sys.stdout")

C27_Witness ==
    /\ args.command = "get" /\ Finished
    /\ args.output = "out.csv"
    /\ \E i \in OpenedFiles :
        /\ calls[i + 1].op = "write" /\ calls[i + 1].outcome = "IOError"
        /\ calls[i + 2].op = "close" /\ calls[i + 2].q = "out.csv"
        /\ Len(calls) = i + 2
    /\ Logged({"error:output:IOError"})


\* C28: for every integer batch size the command line accepts, zero and
\* negative ones included, a batch add/update that issued the commit and
\* logged the successful completion has passed each parsed document to
\* client.add exactly once: the batches of the client.add calls, in call
\* order, are the parsed list.
C28_CompletedMeansAllAdded ==
    (/\ args.command = "batch" /\ args.add_update
     /\ Called("client.commit")
     /\ Logged({"info:add_update_completed"})) =>
        ConcatDocs(Adds) = docs_to_add

\* What holds of the claim: with a batch size of at least one the completed
\* add/update has added every document once, and a batch size of zero never
\* reaches the commit or the completion message.
CompletedMeansAllAddedForPositiveSize ==
    (/\ args.command = "batch" /\ args.add_update
     /\ Logged({"info:add_update_completed"})) =>
        /\ args.batch_size # 0
        /\ args.batch_size >= 1 => ConcatDocs(Adds) = docs_to_add

\* A completed add/update with a negative batch size: committed, reported
\* as successful, and no document was passed to client.add.
CompletedWithoutAdds ==
    /\ Finished /\ args.command = "batch" /\ args.add_update
    /\ args.batch_size = -1
    /\ Len(docs_to_add) = MaxDocs
    /\ Adds = <<>>
    /\ Called("client.commit")
    /\ Logged({"info:add_update_completed"})
    /\ exit_code = Some(0)


\* ------------------------------------------ the base URL across the handlers
ZkOnly == Falsy(config.solr_url) /\ Truthy(config.zk_hosts)
ReachesBaseUrl ==
    \/ args.command = "list"
    \/ args.command \in {"delete", "info"} /\ Truthy(collection_name)
    \/ args.command = "create" /\ Truthy(collection_name) /\ Truthy(args.configset)
HandlerReturned(handler) == Finished /\ Called(handler)

\* C29: with zk_hosts and no solr_url in the configuration,
\* create_collection sends no HTTP request and makes no call to ZooKeeper:
\* it logs that the base URL cannot be determined and returns; with the same
\* configuration delete_collection, list_collections and collection_info
\* go to ZooKeeper to discover a node.  With solr_url set the requests of all
\* four handlers go to the same base URL, the configured one without its
\* trailing slash, and none goes to ZooKeeper.
C29_CreateNeverDiscovers ==
    /\ (args.command = "create" /\ ZkOnly) =>
        /\ AdminRequests = {} /\ ZkCalls = {}
        /\ (HandlerReturned("create_collection") /\ ReachesBaseUrl) =>
              Logged({"error:no_base_url"})
    /\ (args.command \in {"delete", "list", "info"} /\ ZkOnly /\ ReachesBaseUrl) =>
        /\ HandlerReturned("delete_collection") => CountZk("KazooClient") = 1
        /\ HandlerReturned("list_collections") => CountZk("KazooClient") = 1
        /\ HandlerReturned("collection_info") => CountZk("KazooClient") = 1
    /\ Truthy(config.solr_url) =>
        /\ ZkCalls = {}
        /\ \A i \in AdminRequests :
              calls[i].url = (IF config.solr_url = "http://a/" THEN "http://a"
                              ELSE "http://p")

C29_Witness ==
    /\ args.command = "create" /\ ZkOnly /\ ReachesBaseUrl
    /\ HandlerReturned("create_collection")
    /\ kazoo_imported
    /\ Logged({"error:no_base_url"})
    /\ AdminRequests = {} /\ ZkCalls = {}


\* ------------------------------------------------ the two connection choices
\* The configuration of the run: the profile with the command-line overrides,
\* whether or not the validation accepts it.
MergedConfig ==
    LET loaded == load_config(file, args.profile)
    IN  IF loaded.status = "ok" THEN ApplyOverrides(loaded.config, args) ELSE EmptyConn
ConfigLoadDone == args.command # "config" /\ pc # "main"
ClientBuilt == solr_client.kind # "none"
AdminUrlIs(url) ==
    args.command \in {"delete", "list", "info"} =>
        \A i \in AdminRequests : calls[i].url = url
StrippedSolrUrl == IF MergedConfig.solr_url = "http://a/" THEN "http://a" ELSE "http://p"

\* C30: with both solr_url and zk_hosts configured the two connection
\* choices of a run disagree.  load_and_override_config validates for
\* ZooKeeper (it refuses the configuration when kazoo is missing) and
\* initialize_solr_client builds a SolrCloud client, while the requests of
\* delete, list and info go to solr_url and no node is looked up in
\* ZooKeeper.  With only zk_hosts both use ZooKeeper; with only solr_url
\* both use the URL and kazoo is not needed.
C30_ConnectionChoicesDisagree ==
    LET both == Truthy(MergedConfig.solr_url) /\ Truthy(MergedConfig.zk_hosts)
        zk_only == Falsy(MergedConfig.solr_url) /\ Truthy(MergedConfig.zk_hosts)
        url_only == Truthy(MergedConfig.solr_url) /\ Falsy(MergedConfig.zk_hosts)
    IN  /\ both =>
            /\ (ConfigLoadDone /\ ~kazoo_imported) => NoConfigReturned
            /\ ClientBuilt => solr_client.kind = "SolrCloud"
            /\ ZkCalls = {}
            /\ AdminUrlIs(StrippedSolrUrl)
        /\ zk_only =>
            /\ (ConfigLoadDone /\ ~kazoo_imported) => NoConfigReturned
            /\ ClientBuilt => solr_client.kind = "SolrCloud"
            /\ \A i \in AdminRequests :
                  /\ CountZk("KazooClient") = 1
                  /\ calls[i].url \in {"http://h1:8983/solr", "http://h2:7574/search"}
        /\ url_only =>
            /\ (ConfigLoadDone /\ Truthy(ResolveCollection(args, MergedConfig))
                  /\ Truthy(MergedConfig.collection)) => ~NoConfigReturned
            /\ ClientBuilt => solr_client.kind = "Solr"
            /\ ZkCalls = {}
            /\ AdminUrlIs(StrippedSolrUrl)

C30_Witness ==
    /\ args.command = "list" /\ Finished
    /\ MergedConfig.solr_url = "http://a/"
    /\ MergedConfig.zk_hosts = "zk1:2181"
    /\ solr_client.kind = "SolrCloud"
    /\ ZkCalls = {}
    /\ Cardinality(AdminRequests) = 1
    /\ calls[Len(calls)].op = "LIST"
    /\ calls[Len(calls)].url = "http://a"

====
